---------------------------- MODULE Spec2Model ----------------------------
(***************************************************************************)
(* Model of the asynchronous ingestion pipeline of rag-web-api:            *)
(*   - the upload handler   app/api/v1/endpoints/ingest.py                 *)
(*   - the blob store       app/services/storage.py   (S3StorageService)   *)
(*   - the work queue       app/services/queue.py     (SQSService)         *)
(*   - the vector index     app/services/vector_store.py (QdrantService)   *)
(*   - the worker loop      app/workers/document_worker.py                 *)
(* File names are sequences of one-character strings so that the extension *)
(* handling of the code (os.path.splitext, str.lower) is computed, not     *)
(* assumed.                                                                *)
(***************************************************************************)
EXTENDS Integers, Sequences, FiniteSets, TLC

\* ------------------------------------------------------------------ bounds
\* number of upload requests the request-serving process handles
MaxUploads == 2
\* number of clock seconds that pass (datetime.now() has second resolution)
MaxClock == 1
\* largest number of chunks a document is split into
MaxChunks == 2
\* number of deliveries the queue makes (each has its own receipt handle)
MaxReceives == 2
\* number of process_document calls
MaxProcess == 2
\* number of query requests
MaxQueries == 1
\* largest number of chunks the index ranks for a query
MaxHits == 3
\* number of messages in the queue that ingest_document did not send
MaxForeign == 1
\* number of health probes
MaxProbes == 2
\* number of maintenance calls on the collection
MaxMaint == 2
\* number of texts handed to the chunker
MaxSplits == 2

\* the worker processes (each runs DocumentWorker.run)
Workers == {"w1", "w2"}

\* ------------------------------------------------------- program constants
\* ingest.py line 76: 10 * 1024 * 1024
MaxFileSize == 10 * 1024 * 1024
\* document_worker.py line 104: receive_messages(max_messages=10)
max_messages == 10
\* rag_service.py line 58 and chat.py line 72: the length of a preview
PreviewLen == 200
\* document_processor.py line 47 and vector_store.py line 122: the length of
\* the vectors of sentence-transformers/all-MiniLM-L6-v2
embedding_dim == 384
\* document_processor.py lines 55-56: SentenceSplitter(chunk_size=512,
\* chunk_overlap=50)
chunk_size == 512
chunk_overlap == 50
\* vector_store.py line 185: the scroll of delete_documents_by_s3_key
delete_scroll_limit == 1000
\* vector_store.py line 214: the scroll of cleanup_duplicates
cleanup_scroll_limit == 10000

\* ingest.py line 38
ALLOWED_EXTENSIONS ==
    { <<".", "p", "d", "f">>, <<".", "t", "x", "t">>, <<".", "m", "d">>,
      <<".", "d", "o", "c", "x">>, <<".", "d", "o", "c">> }

\* ------------------------------------------------------------ string model
Min(a, b) == IF a < b THEN a ELSE b

SetMax(S) == CHOOSE x \in S : \A y \in S : y <= x

\* str.lower() on the characters the model's file names use
LowerChar(c) ==
    CASE c = "P" -> "p"
      [] c = "D" -> "d"
      [] c = "F" -> "f"
      [] c = "T" -> "t"
      [] c = "X" -> "x"
      [] OTHER -> c

lower(s) == [i \in 1..Len(s) |-> LowerChar(s[i])]

\* str.rfind: the last position of c in p (1-based), 0 when absent
rfind(p, c) ==
    LET S == {i \in 1..Len(p) : p[i] = c}
    IN  IF S = {} THEN 0 ELSE SetMax(S)

\* os.path.splitext (posixpath): the extension starts at the last dot after
\* the last separator, unless only dots lie between the separator and it
splitext(p) ==
    LET sepIndex == rfind(p, "/")
        dotIndex == rfind(p, ".")
    IN  IF dotIndex > sepIndex
           /\ \E k \in (sepIndex + 1)..(dotIndex - 1) : p[k] # "."
        THEN <<SubSeq(p, 1, dotIndex - 1), SubSeq(p, dotIndex, Len(p))>>
        ELSE <<p, <<>>>>

\* a plausible slip: the extension is compared without lower-casing, and a
\* missing extension is let through
validate_file_noext(filename) ==
    splitext(filename)[2] = <<>> \/ splitext(filename)[2] \in ALLOWED_EXTENSIONS

\* a plausible slip: an extension is missing from the allow-list (as ".doc" is
\* from the readers of DocumentProcessor)
validate_file_no_doc(filename) ==
    lower(splitext(filename)[2]) \in ALLOWED_EXTENSIONS \ {<<".", "d", "o", "c">>}

\* ingest.validate_file
validate_file(filename) ==
    LET file_extension == lower(splitext(filename)[2])
    IN  file_extension \in ALLOWED_EXTENSIONS

\* a plausible slip: >= instead of >
too_large_ge(size) == size >= MaxFileSize

\* ingest.py line 76: len(file_content) > 10 * 1024 * 1024
too_large(size) == size > MaxFileSize

\* ----------------------------------------------------------------- inputs
N_a_txt == <<"a", ".", "t", "x", "t">>
N_b_md  == <<"b", ".", "m", "d">>

\* file names of the uploads in the whole-system specification
SysNames == {N_a_txt}

\* file names of the uploads in the specification of the upload handler
AllNames ==
    { N_a_txt, N_b_md, <<>>,
      <<"a", ".", "p", "d", "f">>, <<"a", ".", "d", "o", "c", "x">>,
      <<"a", ".", "d", "o", "c">>, <<"a", ".", "P", "D", "F">>,
      <<"a", ".", "T", "x", "t">>,
      <<"a", ".", "e", "x", "e">>, <<"a">>, <<".", "p", "d", "f">>,
      <<"a", ".", "p", "d", "f", ".", "e", "x", "e">>,
      <<"a", ".">>, <<"p", "d", "f">>,
      <<"a", ".", "t", "x", "t", "/", "b">> }

\* a file's content: its length in bytes and the number of chunks its text
\* is split into (an empty file has no text)
Contents(sizes) ==
    {c \in [size : sizes, chunks : 0..MaxChunks] : c.size = 0 => c.chunks = 0}

SysSizes == {0, 11}
AllSizes == {0, MaxFileSize, MaxFileSize + 1}

\* (an empty file, a file without text, a file of MaxChunks chunks)
SysFiles ==
    [filename : SysNames,
     content : {c \in Contents(SysSizes) : c.chunks \in {0, MaxChunks}}]
\* (the chunk count plays no part in the upload handler: one per size)
AllFiles ==
    [filename : AllNames,
     content : {c \in Contents(AllSizes) : c.chunks = Min(c.size, 1)}]

\* how a call to an external service ends: it succeeds, it raises
\* botocore's ClientError, or it raises another exception
Outcomes == {"ok", "client_error", "other_error"}


\* Python's None
None == [none |-> TRUE]

\* str(e) of the exceptions a call can raise (botocore's
\* EndpointConnectionError, a refused connection to the index), and of none
ExceptionTexts ==
    { "Could not connect to the endpoint URL: http://localstack:4566/",
      "[Errno 111] Connection refused" }
NoException == ""

\* the exceptions that reach a handler's `except Exception as e`, given how
\* its calls ended
Raised(outs) ==
    IF "other_error" \in outs THEN ExceptionTexts ELSE {NoException}

\* ---------------------------------------------------------------- state
VARIABLES
    clock,      \* datetime.now(), in whole seconds
    nreq,       \* number of upload requests handled so far
    resp,       \* the last upload request and its response
    puts,       \* keys returned by the successful upload_file calls, in order
    blobs,      \* the bucket: key -> content
    queue,      \* the SQS queue: message id -> [Body, st, rh]
    nrecv,      \* number of deliveries made so far
    collection, \* the Qdrant collection: whether it exists, and its vectors
    index,      \* the points of the Qdrant collection
    tmp,        \* the files under /tmp: file name -> content
    pc,         \* where each worker is in DocumentWorker.run
    batch,      \* the messages a worker received and has not yet handled
    loc,        \* the locals of the worker's process_message call
    added,      \* keys for which an add_documents call has returned True
    deleteCalls, \* receipt handles delete_message was called with
    proc,       \* the DocumentProcessor.process_document call and its locals
    chat,       \* the last query request and the answer pipeline's response
    health,     \* the last health probe and its response
    maint,      \* the last maintenance call on the collection and its result
    chunker     \* the calls of the chunker so far: each text with its chunks

vars == <<clock, nreq, resp, puts, blobs, queue, nrecv, collection, index, tmp,
          pc, batch, loc, added, deleteCalls, proc, chat, health, maint,
          chunker>>

ingestVars == <<clock, nreq, resp, puts, blobs, queue>>
workerVars == <<nrecv, collection, index, tmp, pc, batch, loc, added, deleteCalls>>
\* the state of the health probes, of the maintenance calls and of the
\* chunker
opsVars == <<health, maint, chunker>>
\* the state of the processor, of the answer pipeline and of the operations
otherVars == <<proc, chat, health, maint, chunker>>

\* ------------------------------------------------------------ blob store
\* storage.py line 66: f"uploads/{timestamp}_{filename}", the timestamp being
\* datetime.now() formatted to the second
s3_key_of(timestamp, filename) ==
    [prefix |-> "uploads/", timestamp |-> timestamp, filename |-> filename]

\* s3_client.put_object: stores the data under the key, replacing what is there
put_object(bl, key, data) ==
    [k \in (DOMAIN bl) \cup {key} |-> IF k = key THEN data ELSE bl[k]]

\* a plausible slip: the key is returned although put_object failed
upload_file_key_on_failure(bl, now, file_data, filename, out) ==
    IF out = "ok"
    THEN LET s3_key == s3_key_of(now, filename)
         IN  [ret |-> s3_key, blobs |-> put_object(bl, s3_key, file_data),
              raised |-> FALSE]
    ELSE [ret |-> s3_key_of(now, filename), blobs |-> bl,
          raised |-> (out = "other_error")]

\* S3StorageService.upload_file: the key, or None on a ClientError; any other
\* exception leaves the method
upload_file(bl, now, file_data, filename, out) ==
    IF out = "ok"
    THEN LET s3_key == s3_key_of(now, filename)
         IN  [ret |-> s3_key, blobs |-> put_object(bl, s3_key, file_data),
              raised |-> FALSE]
    ELSE [ret |-> None, blobs |-> bl, raised |-> (out = "other_error")]

\* S3StorageService.download_file: the bytes, or None on a ClientError
download_file(bl, s3_key, out) ==
    IF out = "ok" /\ s3_key \in DOMAIN bl
    THEN [ret |-> bl[s3_key], raised |-> FALSE]
    ELSE [ret |-> None, raised |-> (out = "other_error")]

\* ------------------------------------------------------------ work queue
\* json.dumps / json.loads of the message body
json_dumps(obj) == [json |-> TRUE, obj |-> obj]
json_loads(s) == IF s.json THEN s.obj ELSE None

\* SQSService.send_message: True, or False on a ClientError or when the queue
\* can be neither found nor created
send_message(q, message_body, out) ==
    IF out = "ok"
    THEN [ret |-> TRUE,
          queue |-> Append(q, [Body |-> json_dumps(message_body),
                               st |-> "visible", rh |-> <<0, 0>>]),
          raised |-> FALSE]
    ELSE [ret |-> FALSE, queue |-> q, raised |-> (out = "other_error")]

\* the bodies process_message rejects: not JSON, JSON without s3_key, JSON
\* without filename
MalformedBodies ==
    { [json |-> FALSE, obj |-> None],
      json_dumps([document_id |-> 0, filename |-> N_a_txt, s3_key |-> None,
                  file_size |-> 0]),
      json_dumps([document_id |-> 0, filename |-> <<>>,
                  s3_key |-> s3_key_of(0, N_a_txt), file_size |-> 0]) }

\* a message that does not come from ingest_document arrives in the queue
SendForeign(Body) ==
    /\ Cardinality({m \in 1..Len(queue) : queue[m].Body \in MalformedBodies})
          < MaxForeign
    /\ queue' = Append(queue, [Body |-> Body, st |-> "visible",
                                rh |-> <<0, 0>>])
    /\ UNCHANGED <<otherVars, clock, nreq, resp, puts, blobs, workerVars>>

\* the receipt handle of the n-th delivery the queue makes of message mid
ReceiptHandle(mid, n) == <<mid, n>>


\* --------------------------------------------------------- upload handler
Response(status, detail, bl, q, upload_calls, send_calls, s3_key) ==
    [status |-> status, detail |-> detail, blobs |-> bl, queue |-> q,
     upload_calls |-> upload_calls, send_calls |-> send_calls,
     s3_key |-> s3_key]

\* ingest.ingest_document: the response and the blob store and queue it leaves
\* (the detail of the extension rejection goes on to list the allowed types);
\* e is the exception a call raises, if one does
ingest_document(file, s3out, sqsout, e, now, bl, q, document_id) ==
    IF file.filename = <<>>
    THEN Response(400, "No filename provided", bl, q, 0, 0, None)
    ELSE IF ~validate_file(file.filename)
    THEN Response(400, "Invalid file type", bl, q, 0, 0, None)
    ELSE IF too_large(file.content.size)
    THEN Response(413, "File too large. Maximum size is 10MB", bl, q, 0, 0, None)
    ELSE
      LET up == upload_file(bl, now, file.content, file.filename, s3out)
      IN  IF up.raised
          THEN Response(500, "Internal server error during document ingestion",
                        up.blobs, q, 1, 0, None)
          ELSE IF up.ret = None
          THEN Response(500, "Failed to upload file to storage",
                        up.blobs, q, 1, 0, None)
          ELSE
            LET message_body == [document_id |-> document_id,
                                 filename |-> file.filename,
                                 s3_key |-> up.ret,
                                 file_size |-> file.content.size]
                snd == send_message(q, message_body, sqsout)
            IN  IF snd.raised
                THEN Response(500,
                         "Internal server error during document ingestion",
                         up.blobs, snd.queue, 1, 1, up.ret)
                ELSE IF ~snd.ret
                THEN Response(500,
                         "Failed to queue document for processing. Please try again later.",
                         up.blobs, snd.queue, 1, 1, up.ret)
                ELSE Response(204, "", up.blobs, snd.queue, 1, 1, up.ret)

\* one upload request, handled from validation to response
IngestDocument(file, s3out, sqsout) ==
    /\ nreq < MaxUploads
    /\ \E e \in Raised({s3out, sqsout}) :
       LET r == ingest_document(file, s3out, sqsout, e, clock, blobs, queue,
                                nreq + 1)
           raised == r.upload_calls = 1 /\ r.status = 500 /\
                     (s3out = "other_error" \/
                      (s3out = "ok" /\ sqsout = "other_error"))
       IN  /\ blobs' = r.blobs
           /\ queue' = r.queue
           /\ puts' = IF r.s3_key = None THEN puts ELSE Append(puts, r.s3_key)
           /\ resp' = [file |-> file,
                       s3 |-> s3out, sqs |-> sqsout,
                       status |-> r.status, detail |-> r.detail,
                       upload_calls |-> r.upload_calls,
                       send_calls |-> r.send_calls,
                       s3_key |-> r.s3_key,
                       exception |-> IF raised THEN e ELSE NoException,
                       enqueued |-> SubSeq(r.queue, Len(queue) + 1,
                                           Len(r.queue))]
    /\ nreq' = nreq + 1
    /\ UNCHANGED <<otherVars, clock, workerVars>>

\* a second of wall-clock time passes (the clock is read by uploads only)
Tick ==
    /\ clock < MaxClock
    /\ nreq < MaxUploads
    /\ clock' = clock + 1
    /\ UNCHANGED <<otherVars, nreq, resp, puts, blobs, queue, workerVars>>


\* ------------------------------------------------------------ the queue
\* the messages a receive call may return: visible ones, each at most once,
\* in any order, at most max_messages of them
Visible(q) == {m \in 1..Len(q) : q[m].st = "visible"}

Deliveries(q, limit) ==
    UNION { {s \in [1..k -> Visible(q)] :
                \A i, j \in 1..k : i # j => s[i] # s[j]} :
            k \in 1..Min(limit, Cardinality(Visible(q))) }

\* the position of message m in the delivered sequence mids (0: not in it)
Position(mids, m) ==
    IF \E i \in 1..Len(mids) : mids[i] = m
    THEN CHOOSE i \in 1..Len(mids) : mids[i] = m
    ELSE 0

\* the queue hides each delivered message and hands out a new receipt handle
\* for it: the i-th message of the call gets the (n + i)-th handle
MarkInFlight(q, mids, n) ==
    [m \in 1..Len(q) |->
        IF Position(mids, m) > 0
        THEN [q[m] EXCEPT !.st = "inflight",
                          !.rh = ReceiptHandle(m, n + Position(mids, m))]
        ELSE q[m]]

\* the visibility timeout (queue.py line 50) of an unacknowledged delivery
\* runs out: the message can be received again
VisibilityTimeout(m) ==
    /\ m \in 1..Len(queue)
    /\ queue[m].st = "inflight"
    /\ queue' = [queue EXCEPT ![m].st = "visible"]
    /\ UNCHANGED <<otherVars, clock, nreq, resp, puts, blobs, workerVars>>

\* the message retention period (queue.py line 51) of a message runs out: the
\* queue drops it, delivered or not
RetentionExpires(m) ==
    /\ m \in 1..Len(queue)
    /\ queue[m].st \in {"visible", "inflight"}
    /\ queue' = [queue EXCEPT ![m].st = "expired"]
    /\ UNCHANGED <<otherVars, clock, nreq, resp, puts, blobs, workerVars>>

\* sqs_client.delete_message: a handle of the latest delivery removes the
\* message; an older handle may or may not
DeleteMessage(q, handle, stale_deletes) ==
    LET m == handle[1]
    IN  IF q[m].st \in {"deleted", "expired"} THEN q
        ELSE IF q[m].rh = handle \/ stale_deletes
        THEN [q EXCEPT ![m].st = "deleted"]
        ELSE q

\* ----------------------------------------------------------- the worker
NoLocals == [file_data |-> None, texts |-> None, late |-> FALSE,
             success |-> FALSE]

\* the message the worker is handling
Msg(w) == batch[w][1]
body(w) == json_loads(Msg(w).Body)

\* process_message has returned: back in the loop of run
Return(w, value) ==
    /\ pc' = [pc EXCEPT ![w] = "ack"]
    /\ loc' = [loc EXCEPT ![w] = [NoLocals EXCEPT !.success = value]]

\* run, line 104: receive_messages(max_messages=10); nothing received (or
\* the call failed): sleep and poll again
ReceiveNothing(w) ==
    /\ pc[w] = "poll"
    /\ UNCHANGED vars

\* run, lines 104-112: a batch of messages is received
ReceiveMessages(w) ==
    /\ pc[w] = "poll"
    /\ \E mids \in Deliveries(queue,
                              Min(max_messages, MaxReceives - nrecv)) :
         /\ queue' = MarkInFlight(queue, mids, nrecv)
         /\ nrecv' = nrecv + Len(mids)
         /\ batch' = [batch EXCEPT ![w] =
                [i \in 1..Len(mids) |->
                    [ReceiptHandle |-> ReceiptHandle(mids[i], nrecv + i),
                     Body |-> queue[mids[i]].Body]]]
    /\ pc' = [pc EXCEPT ![w] = "download"]
    /\ UNCHANGED <<otherVars, clock, nreq, resp, puts, blobs, collection, index, tmp,
                   loc, added, deleteCalls>>

\* a plausible slip: only the key is looked for
WellFormed_key_only(b) ==
    /\ b # None
    /\ b.s3_key # None

\* whether the parsed body carries both fields process_message needs
WellFormed(b) ==
    /\ b # None
    /\ b.s3_key # None
    /\ b.filename # <<>>

\* process_message, lines 31-45: parse the body and download the blob
Download(w, out) ==
    /\ pc[w] = "download"
    /\ IF ~WellFormed(body(w))
       THEN Return(w, FALSE)
       ELSE LET d == download_file(blobs, body(w).s3_key, out)
            IN  IF d.raised \/ d.ret = None \/ d.ret.size = 0
                THEN Return(w, FALSE)
                ELSE /\ pc' = [pc EXCEPT ![w] = "write"]
                     /\ loc' = [loc EXCEPT ![w].file_data = d.ret]
    /\ UNCHANGED <<otherVars, ingestVars, nrecv, collection, index, tmp, batch, added,
                   deleteCalls>>

\* what is left of a file whose write failed
Truncated == [size |-> 0, chunks |-> 0]

\* process_message, lines 48-50: the blob is written to /tmp/{filename}.  When
\* open raises there is no file; when write raises the file is there,
\* truncated.  Either exception is caught by the outer handler, before the
\* inner try and its finally clause are entered
WriteTemp(w, out) ==
    /\ pc[w] = "write"
    /\ LET put(data) == [f \in (DOMAIN tmp) \cup {body(w).filename} |->
                            IF f = body(w).filename THEN data ELSE tmp[f]]
       IN  IF out = "ok"
           THEN /\ tmp' = put(loc[w].file_data)
                /\ pc' = [pc EXCEPT ![w] = "process"]
                /\ loc' = loc
           ELSE /\ tmp' = IF out = "write_error" THEN put(Truncated) ELSE tmp
                /\ Return(w, FALSE)
    /\ UNCHANGED <<otherVars, ingestVars, nrecv, collection, index, batch, added,
                   deleteCalls>>


\* DocumentProcessor.process_file(temp_file_path), as the worker uses it:
\* extraction, chunking and embedding of the file at that path.  It answers
\* {"error": ...}, or the chunk texts with their embeddings, or it raises.
process_file(fs, filename, out) ==
    IF out = "ok" /\ filename \in DOMAIN fs
    THEN [error |-> FALSE, raised |-> FALSE,
          texts |-> [n |-> fs[filename].chunks, src |-> fs[filename]]]
    ELSE [error |-> (out # "raise"), raised |-> (out = "raise"),
          texts |-> None]

ProcessOutcomes == {"ok", "error", "raise"}

\* process_message, lines 54-57: the document is extracted, chunked, embedded
Process(w, out) ==
    /\ pc[w] = "process"
    /\ LET result == process_file(tmp, body(w).filename, out)
       IN  IF result.raised \/ result.error
           THEN /\ pc' = [pc EXCEPT ![w] = "cleanup"]
                /\ loc' = [loc EXCEPT ![w].success = FALSE]
           ELSE /\ pc' = [pc EXCEPT ![w] = "exists"]
                /\ loc' = [loc EXCEPT ![w].texts = result.texts]
    /\ UNCHANGED <<otherVars, ingestVars, nrecv, collection, index, tmp, batch, added,
                   deleteCalls>>

\* len(text) of a chunk text (the text being the i-th chunk of a source)
len_of(text) ==
    IF text[1].chunks = 0 THEN 0 ELSE text[1].size \div text[1].chunks

\* a plausible slip: the enumeration starts at the second chunk
documents_for_qdrant_skips_first(handle, b, texts) ==
    { [id |-> <<handle, i>>, content |-> <<texts.src, i>>,
       filename |-> b.filename, s3_key |-> b.s3_key, chunk_id |-> i,
       chunk_size |-> len_of(<<texts.src, i>>)] :
      i \in 1..(texts.n - 1) }

\* process_message, lines 60-73: one document per chunk, each with a fresh
\* uuid4 (here: the delivery and the chunk's position)
documents_for_qdrant(handle, b, texts) ==
    { [id |-> <<handle, i>>, content |-> <<texts.src, i>>,
       filename |-> b.filename, s3_key |-> b.s3_key, chunk_id |-> i,
       chunk_size |-> len_of(<<texts.src, i>>)] :
      i \in 0..(texts.n - 1) }

PointsOf(idx, s3_key) == {p \in idx : p.s3_key = s3_key}

\* no collection of the configured name
NoCollection == [exists |-> FALSE, size |-> 0, distance |-> ""]

\* a plausible slip: the collection is created without looking for it, which
\* the index refuses when it exists
create_collection_unconditionally(col, out) ==
    IF out # "ok" \/ col.exists THEN [ret |-> FALSE, collection |-> col]
    ELSE [ret |-> TRUE,
          collection |-> [exists |-> TRUE, size |-> 384, distance |-> "Cosine"]]

\* QdrantService.create_collection_if_not_exists: True when the collection
\* is there, created with 384 dimensions and the cosine metric when it is
\* not, False on any exception
create_collection_if_not_exists(col, out) ==
    IF out # "ok" THEN [ret |-> FALSE, collection |-> col]
    ELSE IF col.exists THEN [ret |-> TRUE, collection |-> col]
    ELSE [ret |-> TRUE,
          collection |-> [exists |-> TRUE, size |-> 384, distance |-> "Cosine"]]

\* QdrantService.document_exists: a scroll filtered on s3_key, limit 1; False
\* when the scroll raises
document_exists(idx, s3_key, out) ==
    IF out = "ok" THEN PointsOf(idx, s3_key) # {} ELSE FALSE

\* add_documents, lines 77-83: the collection is ensured and the key probed
Exists(w, cout, eout) ==
    /\ pc[w] = "exists"
    /\ LET c == create_collection_if_not_exists(collection, cout)
           key == body(w).s3_key
       IN  /\ collection' = c.collection
           /\ IF ~c.ret
              THEN /\ pc' = [pc EXCEPT ![w] = "cleanup"]
                   /\ loc' = [loc EXCEPT ![w].success = FALSE]
                   /\ added' = added
              ELSE IF loc[w].texts.n > 0 /\ document_exists(index, key, eout)
              THEN /\ pc' = [pc EXCEPT ![w] = "cleanup"]
                   /\ loc' = [loc EXCEPT ![w].success = TRUE,
                                         ![w].late = (key \in added)]
                   /\ added' = added \cup {key}
              ELSE /\ pc' = [pc EXCEPT ![w] = "upsert"]
                   /\ loc' = [loc EXCEPT ![w].late = (key \in added)]
                   /\ added' = added
    /\ UNCHANGED <<otherVars, ingestVars, nrecv, index, tmp, batch, deleteCalls>>

\* add_documents, lines 86-112: the points are built and upserted
Upsert(w, out) ==
    /\ pc[w] = "upsert"
    /\ IF out = "ok"
       THEN /\ index' = index \cup documents_for_qdrant(Msg(w).ReceiptHandle,
                                                        body(w), loc[w].texts)
            /\ loc' = [loc EXCEPT ![w].success = TRUE]
            /\ added' = added \cup {body(w).s3_key}
       ELSE /\ index' = index
            /\ loc' = [loc EXCEPT ![w].success = FALSE]
            /\ added' = added
    /\ pc' = [pc EXCEPT ![w] = "cleanup"]
    /\ UNCHANGED <<otherVars, ingestVars, nrecv, collection, tmp, batch, deleteCalls>>

\* process_message, line 90: os.path.exists(temp_file_path)
Cleanup(w) ==
    /\ pc[w] = "cleanup"
    /\ pc' = [pc EXCEPT ![w] =
                IF body(w).filename \in DOMAIN tmp THEN "remove" ELSE "ack"]
    /\ loc' = [loc EXCEPT ![w] = [NoLocals EXCEPT !.success = loc[w].success]]
    /\ UNCHANGED <<otherVars, ingestVars, nrecv, collection, index, tmp, batch, added,
                   deleteCalls>>

\* process_message, line 91: os.remove(temp_file_path); when the file is gone
\* by now it raises, and the outer handler makes the call return False
Remove(w) ==
    /\ pc[w] = "remove"
    /\ IF body(w).filename \in DOMAIN tmp
       THEN /\ tmp' = [f \in (DOMAIN tmp) \ {body(w).filename} |-> tmp[f]]
            /\ loc' = loc
       ELSE /\ tmp' = tmp
            /\ loc' = [loc EXCEPT ![w].success = FALSE]
    /\ pc' = [pc EXCEPT ![w] = "ack"]
    /\ UNCHANGED <<otherVars, ingestVars, nrecv, collection, index, batch, added,
                   deleteCalls>>

\* a plausible slip: the message is deleted whatever process_message returned
deletes_always(success) == TRUE

\* run, line 115: if success
deletes(success) == success

\* the worker goes on to the next message of the batch, or polls again
NextMessage(w, rest) ==
    /\ batch' = [batch EXCEPT ![w] = rest]
    /\ pc' = [pc EXCEPT ![w] = IF rest = <<>> THEN "poll" ELSE "download"]
    /\ loc' = [loc EXCEPT ![w] = NoLocals]

\* run, lines 115-118: process_message returned True and delete_message is
\* called; an exception of it other than ClientError ends the handling of the
\* batch (line 122)
AckDelete(w, out, stale_deletes) ==
    /\ pc[w] = "ack"
    /\ deletes(loc[w].success)
    /\ deleteCalls' = deleteCalls \cup {Msg(w).ReceiptHandle}
    /\ queue' = IF out = "ok"
                THEN DeleteMessage(queue, Msg(w).ReceiptHandle, stale_deletes)
                ELSE queue
    /\ NextMessage(w, IF out = "other_error" THEN <<>> ELSE Tail(batch[w]))
    /\ UNCHANGED <<otherVars, clock, nreq, resp, puts, blobs, nrecv, collection, index,
                   tmp, added>>

\* run, lines 119-120: process_message returned False, the message is kept
AckKeep(w) ==
    /\ pc[w] = "ack"
    /\ ~deletes(loc[w].success)
    /\ NextMessage(w, Tail(batch[w]))
    /\ UNCHANGED <<otherVars, ingestVars, nrecv, collection, index, tmp, added,
                   deleteCalls>>

\* ---------------------------------------------------- document processor
\* DocumentProcessor.__init__, lines 60-65: the extensions that have a reader
readers ==
    { <<".", "p", "d", "f">>, <<".", "d", "o", "c", "x">>,
      <<".", "t", "x", "t">>, <<".", "m", "d">> }

\* pathlib's PurePath.name of the key "uploads/{timestamp}_{filename}": what
\* follows the last "/" (the timestamp's digits stand as one character)
PathName(s3_key) ==
    LET tail == <<"0", "_">> \o s3_key.filename
    IN  SubSeq(tail, rfind(tail, "/") + 1, Len(tail))

\* pathlib's PurePath.suffix: from the last dot on, unless the dot is the
\* first or the last character of the name
suffix(name) ==
    LET i == rfind(name, ".")
    IN  IF 1 < i /\ i < Len(name) THEN SubSeq(name, i, Len(name)) ELSE <<>>

Digit(k) == CASE k = 0 -> "0" [] k = 1 -> "1" [] k = 2 -> "2"
              [] k = 3 -> "3" [] OTHER -> "9"

\* tempfile.NamedTemporaryFile(suffix=file_extension, delete=False): a fresh
\* name (the k-th call's) ending in the suffix
NamedTemporaryFile(k, file_extension) == <<"tmp", Digit(k)>> \o file_extension

\* dict.get(key, default)
Get(doc, key, default) == IF key \in DOMAIN doc THEN doc[key] ELSE default

\* the defaults of add_documents, lines 93-96: "Unknown", "", 0, 0
Unknown == <<"U", "n", "k", "n", "o", "w", "n">>
EmptyKey == [prefix |-> "", timestamp |-> 0, filename |-> <<>>]

\* process_document, lines 155-168: the dict built for the i-th node; the
\* key, the position and the size go under 'metadata'
qdrant_doc(k, s3_key, filename, documents, i) ==
    [id |-> <<<<"proc", k>>, i>>,
     content |-> <<documents, i>>,
     vector |-> embedding_dim,
     metadata |-> [filename |-> filename, s3_key |-> s3_key, chunk_id |-> i,
                   chunk_size |-> len_of(<<documents, i>>),
                   original_id |-> <<s3_key, i>>],
     source |-> s3_key,
     filename |-> filename]

\* add_documents, lines 88-98: the point built from a dict (a vector stands
\* as its length)
PointStruct(doc) ==
    [id |-> doc.id,
     vector |-> doc.vector,
     content |-> doc.content,
     filename |-> Get(doc, "filename", Unknown),
     s3_key |-> Get(doc, "s3_key", EmptyKey),
     chunk_id |-> Get(doc, "chunk_id", 0),
     chunk_size |-> Get(doc, "chunk_size", 0)]

\* a plausible slip: the key is looked up where process_document puts it
first_s3_key_in_metadata(documents) ==
    IF "s3_key" \in DOMAIN documents[1]
    THEN [raised |-> FALSE, value |-> documents[1].s3_key]
    ELSE IF "metadata" \in DOMAIN documents[1]
    THEN [raised |-> FALSE, value |-> documents[1].metadata.s3_key]
    ELSE [raised |-> TRUE, value |-> EmptyKey]

\* add_documents, line 81: documents[0]["s3_key"], a KeyError when the dict
\* has no such key
first_s3_key(documents) ==
    IF "s3_key" \in DOMAIN documents[1]
    THEN [raised |-> FALSE, value |-> documents[1].s3_key]
    ELSE [raised |-> TRUE, value |-> EmptyKey]

\* a plausible slip: the index takes vectors of any length
upsert_unchecked(col, idx, points, out) ==
    IF out # "ok" THEN [raised |-> TRUE, index |-> idx]
    ELSE [raised |-> FALSE,
          index |-> {q \in idx : \A p \in points : p.id # q.id} \cup points]

\* client.upsert(collection_name, points), line 102: inserts the points,
\* replacing by id; the index refuses the whole batch when a vector's length
\* is not the collection's dimension
upsert(col, idx, points, out) ==
    IF out # "ok" THEN [raised |-> TRUE, index |-> idx]
    ELSE IF \E p \in points : p.vector # col.size
    THEN [raised |-> TRUE, index |-> idx]
    ELSE [raised |-> FALSE,
          index |-> {q \in idx : \A p \in points : p.id # q.id} \cup points]

\* QdrantService.add_documents as one call (documents: a sequence of dicts):
\* what it returns and the collection it leaves
add_documents(idx, exists, documents, cout, eout, uout) ==
    LET c == create_collection_if_not_exists(exists, cout)
        failed == [ret |-> FALSE, index |-> idx, collection |-> c.collection]
        points == {PointStruct(documents[j]) : j \in 1..Len(documents)}
        u == upsert(c.collection, idx, points, uout)
        stored == IF ~u.raised
                  THEN [ret |-> TRUE, index |-> u.index,
                        collection |-> c.collection]
                  ELSE failed
    IN  IF ~c.ret THEN failed
        ELSE IF documents = <<>> THEN stored
        ELSE IF first_s3_key(documents).raised THEN failed
        ELSE IF document_exists(idx, first_s3_key(documents).value, eout)
        THEN [ret |-> TRUE, index |-> idx, collection |-> c.collection]
        ELSE IF \E j \in 1..Len(documents) :
                   {"id", "vector", "content"} \ DOMAIN documents[j] # {}
        THEN failed
        ELSE stored

NoCall ==
    [pc |-> "idle", n |-> 0, s3_key |-> EmptyKey, filename |-> <<>>,
     temp_file_path |-> <<>>, documents |-> None, nodes |-> 0, i |-> 0,
     qdrant_documents |-> <<>>, ret |-> FALSE, failed |-> {}, index0 |-> {},
     reader |-> "", store |-> <<>>]

\* the tasks process_document is called for: the bodies of the queue's messages
ProcTasks == {json_loads(queue[m].Body) : m \in 1..Len(queue)}

\* process_document(s3_key, filename) is called
PCall(task) ==
    /\ proc.pc = "idle"
    /\ proc.n < MaxProcess
    /\ proc' = [NoCall EXCEPT !.pc = "download", !.n = proc.n + 1,
                              !.s3_key = task.s3_key,
                              !.filename = task.filename,
                              !.index0 = index]
    /\ UNCHANGED <<chat, opsVars, ingestVars, workerVars>>

\* process_document returns
PReturn(value) == proc' = [proc EXCEPT !.pc = "idle", !.ret = value]

\* download_file_from_s3, lines 67-90: get_object fails (None, no file); or
\* the temporary file is created and written; or it is created and the write
\* raises (None, the file stays: delete=False)
PDownload(out) ==
    /\ proc.pc = "download"
    /\ LET path == NamedTemporaryFile(proc.n, suffix(PathName(proc.s3_key)))
           put(data) == [f \in (DOMAIN tmp) \cup {path} |->
                            IF f = path THEN data ELSE tmp[f]]
       IN  IF out = "get_error" \/ proc.s3_key \notin DOMAIN blobs
           THEN /\ tmp' = tmp
                /\ PReturn(FALSE)
           ELSE IF out = "write_error"
           THEN /\ tmp' = put(Truncated)
                /\ PReturn(FALSE)
           ELSE /\ tmp' = put(blobs[proc.s3_key])
                /\ proc' = [proc EXCEPT !.pc = "read",
                                        !.temp_file_path = path]
    /\ UNCHANGED <<chat, opsVars, ingestVars, nrecv, collection, index, pc, batch, loc,
                   added, deleteCalls>>

\* read_document, lines 92-116: None for an extension without a reader, when
\* the reader yields no document, and when it raises
read_document(fs, file_path, out) ==
    LET file_extension == lower(suffix(file_path))
    IN  IF file_extension \notin readers THEN None
        ELSE IF out = "ok" THEN fs[file_path]
        ELSE None

ReadOutcomes == {"ok", "empty", "raise"}

\* process_document, lines 128-130
PRead(out) ==
    /\ proc.pc = "read"
    /\ LET documents == read_document(tmp, proc.temp_file_path, out)
       IN  IF documents = None
           THEN proc' = [proc EXCEPT !.pc = "cleanup", !.ret = FALSE,
                                     !.reader = out]
           ELSE proc' = [proc EXCEPT !.pc = "index", !.documents = documents,
                                     !.reader = out]
    /\ UNCHANGED <<chat, opsVars, ingestVars, workerVars>>

\* process_document, lines 133-139: VectorStoreIndex.from_documents splits
\* the documents into nodes; an exception of it leaves through the finally
PIndex(out) ==
    /\ proc.pc = "index"
    /\ IF out = "ok"
       THEN proc' = [proc EXCEPT
                !.pc = IF proc.documents.chunks = 0 THEN "store" ELSE "embed",
                !.nodes = proc.documents.chunks, !.i = 0]
       ELSE proc' = [proc EXCEPT !.pc = "cleanup", !.ret = FALSE]
    /\ UNCHANGED <<chat, opsVars, ingestVars, workerVars>>

\* process_document, lines 143-169: the i-th node is embedded; when the
\* embedding raises the node is skipped (continue)
PEmbed(out) ==
    /\ proc.pc = "embed"
    /\ proc.i < proc.nodes
    /\ proc' = [proc EXCEPT
          !.qdrant_documents =
              IF out = "ok"
              THEN Append(@, qdrant_doc(proc.n, proc.s3_key, proc.filename,
                                        proc.documents, proc.i))
              ELSE @,
          !.failed = IF out = "ok" THEN @ ELSE @ \cup {proc.i},
          !.i = @ + 1,
          !.pc = IF proc.i + 1 = proc.nodes THEN "store" ELSE "embed"]
    /\ UNCHANGED <<chat, opsVars, ingestVars, workerVars>>

\* process_document, lines 171-186: nothing embedded is a failure; otherwise
\* the result is what add_documents returns
PStore(cout, eout, uout) ==
    /\ proc.pc = "store"
    /\ IF proc.qdrant_documents = <<>>
       THEN /\ proc' = [proc EXCEPT !.pc = "cleanup", !.ret = FALSE]
            /\ UNCHANGED <<index, collection>>
       ELSE LET r == add_documents(index, collection, proc.qdrant_documents,
                                   cout, eout, uout)
            IN  /\ index' = r.index
                /\ collection' = r.collection
                /\ proc' = [proc EXCEPT !.pc = "cleanup", !.ret = r.ret,
                                        !.store = <<cout, eout, uout>>]
    /\ UNCHANGED <<chat, opsVars, ingestVars, nrecv, tmp, pc, batch, loc, added,
                   deleteCalls>>

\* process_document, lines 188-192: the finally clause unlinks the file
PCleanup ==
    /\ proc.pc = "cleanup"
    /\ tmp' = [f \in (DOMAIN tmp) \ {proc.temp_file_path} |-> tmp[f]]
    /\ PReturn(proc.ret)
    /\ UNCHANGED <<chat, opsVars, ingestVars, nrecv, collection, index, pc, batch, loc,
                   added, deleteCalls>>

PCallStep == \E task \in ProcTasks : PCall(task)

ProcessorStep ==
    \/ PCallStep
    \/ \E out \in {"ok", "get_error", "write_error"} : PDownload(out)
    \/ \E out \in ReadOutcomes : PRead(out)
    \/ \E out \in {"ok", "raise"} : PIndex(out)
    \/ \E out \in {"ok", "raise"} : PEmbed(out)
    \/ \E cout, eout, uout \in {"ok", "other_error"} : PStore(cout, eout, uout)
    \/ PCleanup

\* ---------------------------------------------------------- answer pipeline
\* Texts are sequences of characters; the fixed messages are sequences of
\* their words.
\* generate_answer_with_openai, lines 118-122
NoContextMessage ==
    <<"I'm sorry, but I don't have enough context to answer your question. ",
      "Please make sure relevant documents have been uploaded and processed.">>

\* generate_answer_with_openai, lines 157-160
Apology ==
    <<"I'm sorry, but I encountered an error while generating the answer. ",
      "Please try again later.">>

\* what the language model answers when it answers
ModelAnswer == <<"Model", " answer">>

\* a text of n characters c
Text(c, n) == [i \in 1..n |-> c]

\* the chunks the index can rank for a query: an empty one, and ones of one
\* less than, exactly, and one more than PreviewLen characters
Hit(c, n, score) ==
    [id |-> c, content |-> Text(c, n), filename |-> <<c, ".", "t", "x", "t">>,
     s3_key |-> s3_key_of(0, <<c, ".", "t", "x", "t">>), chunk_id |-> 0,
     score |-> score]

Hits ==
    { Hit("a", 0, 9512), Hit("b", PreviewLen - 1, 8768),
      Hit("c", PreviewLen, 8121), Hit("d", PreviewLen + 1, 7004) }

\* the rankings of the index for a query: up to MaxHits different chunks
Rankings ==
    UNION { {r \in [1..k -> Hits] : \A i, j \in 1..k : i # j => r[i] # r[j]} :
            k \in 0..MaxHits }

\* a plausible slip: the hits are returned although the search failed
search_documents_unguarded(ranking, limit, out) ==
    SubSeq(ranking, 1, Min(limit, Len(ranking)))

\* QdrantService.search_documents, lines 114-154: the first `limit` hits of
\* the ranking as dicts; [] on any exception
search_documents(ranking, limit, out) ==
    IF out = "ok" THEN SubSeq(ranking, 1, Min(limit, Len(ranking))) ELSE <<>>

\* RAGService.retrieve_relevant_documents, lines 79-92
retrieve_relevant_documents(ranking, max_results, out) ==
    search_documents(ranking, max_results, out)

\* a plausible slip: the parts are separated by a single line break
RECURSIVE join_single(_)
join_single(parts) ==
    IF parts = <<>> THEN <<>>
    ELSE IF Len(parts) = 1 THEN parts[1]
    ELSE parts[1] \o <<"\n">> \o join_single(Tail(parts))

\* "\n\n".join(parts)
RECURSIVE join(_)
join(parts) ==
    IF parts = <<>> THEN <<>>
    ELSE IF Len(parts) = 1 THEN parts[1]
    ELSE parts[1] \o <<"\n", "\n">> \o join(Tail(parts))

\* the contents that are not empty, in order
RECURSIVE context_parts(_)
context_parts(documents) ==
    IF documents = <<>> THEN <<>>
    ELSE IF documents[1].content # <<>>
    THEN <<documents[1].content>> \o context_parts(Tail(documents))
    ELSE context_parts(Tail(documents))

\* a plausible slip: an empty result set yields a sentinel context
create_context_with_sentinel(documents) ==
    IF documents = <<>> THEN <<"N", "o", "n", "e">>
    ELSE join(context_parts(documents))

\* RAGService.create_context_from_documents, lines 94-112
create_context_from_documents(documents) ==
    IF documents = <<>> THEN <<>>
    ELSE join(context_parts(documents))

\* a plausible slip: the failure of the model call is not caught
generate_answer_uncaught(query, context, lm) ==
    IF context = <<>>
    THEN [answer |-> NoContextMessage, prompts |-> <<>>, raised |-> FALSE]
    ELSE [answer |-> IF lm = "ok" THEN ModelAnswer ELSE <<>>,
          prompts |-> <<[context |-> context, query |-> query]>>,
          raised |-> (lm # "ok")]

\* a plausible slip: the model is asked whatever the context
generate_answer_unguarded(query, context, lm) ==
    [answer |-> IF lm = "ok" THEN ModelAnswer ELSE Apology,
     prompts |-> <<[context |-> context, query |-> query]>>,
     raised |-> FALSE]

\* RAGService.generate_answer_with_openai, lines 114-160: the answer and the
\* prompts sent to the model
generate_answer_with_openai(query, context, lm) ==
    IF context = <<>>
    THEN [answer |-> NoContextMessage, prompts |-> <<>>, raised |-> FALSE]
    ELSE [answer |-> IF lm = "ok" THEN ModelAnswer ELSE Apology,
          prompts |-> <<[context |-> context, query |-> query]>>,
          raised |-> FALSE]

\* RAGService.generate_answer_stream(query, context), as chat_endpoint uses
\* it: the answer of the pipeline, produced fragment by fragment
generate_answer_stream(query, context, lm) ==
    LET r == generate_answer_with_openai(query, context, lm)
    IN  [fragments |-> [i \in 1..Len(r.answer) |-> <<r.answer[i]>>],
         prompts |-> r.prompts, raised |-> r.raised]

\* a plausible slip: the fragments are put together last first
RECURSIVE concat_reversed(_)
concat_reversed(parts) ==
    IF parts = <<>> THEN <<>> ELSE concat_reversed(Tail(parts)) \o parts[1]

\* "".join(answer_parts)
RECURSIVE concat(_)
concat(parts) ==
    IF parts = <<>> THEN <<>> ELSE parts[1] \o concat(Tail(parts))

\* round(score, 3), scores being counted in ten-thousandths
round3(score) == ((score + 5) \div 10) * 10

\* a plausible slip: >= instead of >
content_preview_ge(content) ==
    IF Len(content) >= PreviewLen
    THEN SubSeq(content, 1, PreviewLen) \o <<".", ".", ".">>
    ELSE content

\* generate_response, lines 58-60, and chat_endpoint, line 72
content_preview(content) ==
    IF Len(content) > PreviewLen
    THEN SubSeq(content, 1, PreviewLen) \o <<".", ".", ".">>
    ELSE content

\* a plausible slip: the entries are collected in reverse
sources_reversed(documents) ==
    [i \in 1..Len(documents) |->
        [filename |-> documents[Len(documents) + 1 - i].filename,
         score |-> round3(documents[Len(documents) + 1 - i].score),
         content_preview |->
             content_preview(documents[Len(documents) + 1 - i].content)]]

\* generate_response, lines 54-63, and chat_endpoint, lines 68-73: one entry
\* per document, in order
sources_of(documents) ==
    [i \in 1..Len(documents) |->
        [filename |-> documents[i].filename,
         score |-> round3(documents[i].score),
         content_preview |-> content_preview(documents[i].content)]]

\* RAGService.generate_response, lines 30-77
generate_response(request, ranking, sout, lm) ==
    LET documents == retrieve_relevant_documents(ranking, request.max_results,
                                                 sout)
        context == create_context_from_documents(documents)
        a == generate_answer_with_openai(request.query, context, lm)
    IN  IF a.raised
        THEN [status |-> 200, query |-> request.query,
              answer |-> <<"I'm sorry, but I encountered an error while processing your request. ",
                           "Please try again later.">>,
              sources |-> <<>>, documents |-> documents, context |-> context,
              prompts |-> a.prompts, searched |-> TRUE, fragments |-> <<>>]
        ELSE [status |-> 200, query |-> request.query, answer |-> a.answer,
              sources |-> IF request.include_sources /\ documents # <<>>
                          THEN sources_of(documents) ELSE <<>>,
              documents |-> documents, context |-> context,
              prompts |-> a.prompts, searched |-> TRUE, fragments |-> <<>>]

\* chat.chat_endpoint, lines 38-87
chat_endpoint(request, ranking, sout, lm) ==
    LET documents == retrieve_relevant_documents(ranking, request.max_results,
                                                 sout)
        context == create_context_from_documents(documents)
        g == generate_answer_stream(request.query, context, lm)
    IN  IF g.raised
        THEN [status |-> 500, query |-> request.query, answer |-> <<>>,
              sources |-> <<>>, documents |-> documents, context |-> context,
              prompts |-> g.prompts, searched |-> TRUE, fragments |-> <<>>]
        ELSE [status |-> 200, query |-> request.query,
              answer |-> concat(g.fragments),
              sources |-> IF request.include_sources
                          THEN sources_of(documents) ELSE <<>>,
              documents |-> documents, context |-> context,
              prompts |-> g.prompts, searched |-> TRUE,
              fragments |-> g.fragments]

\* the validated query requests: ChatRequest, chat.py lines 17-27
Requests ==
    [query : {<<"q">>}, max_results : {1, MaxHits - 1, 20},
     include_sources : BOOLEAN]

\* the bodies a client can post: each field present or not, max_results an
\* integer or not
RawRequests ==
    [query : {[present |-> FALSE, value |-> <<>>],
              [present |-> TRUE, value |-> <<>>],
              [present |-> TRUE, value |-> <<"q">>]},
     max_results : {[present |-> FALSE, integer |-> TRUE, value |-> 0],
                    [present |-> TRUE, integer |-> FALSE, value |-> 0]}
                   \cup {[present |-> TRUE, integer |-> TRUE, value |-> v] :
                            v \in {0, 1, MaxHits - 1, 20, 21}},
     include_sources : {[present |-> FALSE, value |-> TRUE]}
                       \cup {[present |-> TRUE, value |-> b] : b \in BOOLEAN}]

\* the body of a request that was not posted
NoRaw ==
    [query |-> [present |-> FALSE, value |-> <<>>],
     max_results |-> [present |-> FALSE, integer |-> TRUE, value |-> 0],
     include_sources |-> [present |-> FALSE, value |-> TRUE]]

\* a plausible slip: lt=20 instead of le=20
ChatRequest_lt(raw) ==
    [valid |-> /\ raw.query.present /\ Len(raw.query.value) >= 1
               /\ \/ ~raw.max_results.present
                  \/ /\ raw.max_results.integer
                     /\ raw.max_results.value >= 1
                     /\ raw.max_results.value < 20,
     request |-> [query |-> raw.query.value,
                  max_results |-> IF raw.max_results.present
                                  THEN raw.max_results.value ELSE 5,
                  include_sources |-> raw.include_sources.value]]

\* ChatRequest, chat.py lines 17-27: query required with min_length=1,
\* max_results default 5 with ge=1 and le=20, include_sources default True
ChatRequest(raw) ==
    [valid |-> /\ raw.query.present /\ Len(raw.query.value) >= 1
               /\ \/ ~raw.max_results.present
                  \/ /\ raw.max_results.integer
                     /\ raw.max_results.value >= 1
                     /\ raw.max_results.value <= 20,
     request |-> [query |-> raw.query.value,
                  max_results |-> IF raw.max_results.present
                                  THEN raw.max_results.value ELSE 5,
                  include_sources |-> raw.include_sources.value]]

\* the response to a body that is not a ChatRequest: 422, chat_endpoint is
\* not called
ValidationError(request) ==
    [status |-> 422, query |-> request.query, answer |-> <<>>,
     sources |-> <<>>, documents |-> <<>>, context |-> <<>>,
     prompts |-> <<>>, searched |-> FALSE, fragments |-> <<>>]

\* no query handled yet
NoChat ==
    [n |-> 0, via |-> "", raw |-> NoRaw, exception |-> NoException,
     request |-> [query |-> <<>>, max_results |-> 5,
                  include_sources |-> TRUE],
     ranking |-> <<>>, search |-> "ok", lm |-> "ok",
     response |-> [status |-> 0, query |-> <<>>, answer |-> <<>>,
                   sources |-> <<>>, documents |-> <<>>, context |-> <<>>,
                   prompts |-> <<>>, searched |-> FALSE, fragments |-> <<>>]]

\* RAGService.generate_response is called for a query
GenerateResponse(request, ranking, sout, lm) ==
    /\ chat.n < MaxQueries
    /\ chat' = [n |-> chat.n + 1, via |-> "generate_response", raw |-> NoRaw,
                exception |-> NoException,
                request |-> request, ranking |-> ranking, search |-> sout,
                lm |-> lm,
                response |-> generate_response(request, ranking, sout, lm)]
    /\ UNCHANGED <<proc, opsVars, ingestVars, workerVars>>

\* POST /api/v1/chat/: the body is validated as a ChatRequest and, when
\* valid, handled by chat_endpoint
ChatEndpoint(raw, ranking, sout, lm) ==
    /\ chat.n < MaxQueries
    /\ LET v == ChatRequest(raw)
       IN  chat' = [n |-> chat.n + 1, via |-> "chat_endpoint", raw |-> raw,
                    exception |-> NoException,
                    request |-> v.request, ranking |-> ranking,
                    search |-> sout, lm |-> lm,
                    response |-> IF v.valid
                                 THEN chat_endpoint(v.request, ranking, sout,
                                                    lm)
                                 ELSE ValidationError(v.request)]
    /\ UNCHANGED <<proc, opsVars, ingestVars, workerVars>>

\* chat_endpoint, lines 82-87: the handler of an exception raised inside the
\* try block; the detail is f"Chat processing failed: {str(e)}"
chat_endpoint_except(request, e) ==
    [status |-> 500, query |-> request.query,
     detail |-> <<"Chat processing failed: ", e>>, searched |-> TRUE]

\* POST /api/v1/chat/ with a valid body, and a call inside the try block of
\* chat_endpoint raises e
ChatEndpointRaises(raw, ranking, sout, e) ==
    /\ chat.n < MaxQueries
    /\ ChatRequest(raw).valid
    /\ chat' = [n |-> chat.n + 1, via |-> "chat_endpoint", raw |-> raw,
                exception |-> e, request |-> ChatRequest(raw).request,
                ranking |-> ranking, search |-> sout, lm |-> "other_error",
                response |-> chat_endpoint_except(ChatRequest(raw).request, e)]
    /\ UNCHANGED <<proc, opsVars, ingestVars, workerVars>>

\* ----------------------------------------------------------- health probes
\* S3StorageService.create_bucket_if_not_exists, lines 33-56: True, False on
\* a ClientError; any other exception is not caught
create_bucket_if_not_exists(out) ==
    [ret |-> (out = "ok"), raised |-> (out = "other_error")]

\* SQSService.create_queue_if_not_exists, lines 34-63: True, False on a
\* ClientError; any other exception is not caught
create_queue_if_not_exists(out) ==
    [ret |-> (out = "ok"), raised |-> (out = "other_error")]

\* `value is not None`, for the booleans create_queue_if_not_exists returns
is_not_None(value) == value \in BOOLEAN

\* a plausible slip: the rollup looks at the queue only
ingest_health_check_queue_only(s3out, sqsout, e) ==
    LET s3 == create_bucket_if_not_exists(s3out)
        sqs == create_queue_if_not_exists(sqsout)
    IN  IF s3.raised \/ sqs.raised
        THEN [status |-> "unhealthy", error |-> e]
        ELSE LET s3_healthy == s3.ret
                 sqs_healthy == is_not_None(sqs.ret)
             IN  [status |-> IF sqs_healthy THEN "healthy" ELSE "unhealthy",
                  components |->
                      [s3_storage |-> IF s3_healthy THEN "healthy"
                                      ELSE "unhealthy",
                       sqs_queue |-> IF sqs_healthy THEN "healthy"
                                     ELSE "unhealthy"],
                  error |-> NoException]

\* ingest.ingest_health_check, lines 131-159; e is the exception a call
\* raises, if one does
ingest_health_check(s3out, sqsout, e) ==
    LET s3 == create_bucket_if_not_exists(s3out)
        sqs == create_queue_if_not_exists(sqsout)
    IN  IF s3.raised \/ sqs.raised
        THEN [status |-> "unhealthy", error |-> e]
        ELSE LET s3_healthy == s3.ret
                 sqs_healthy == is_not_None(sqs.ret)
             IN  [status |-> IF s3_healthy /\ sqs_healthy THEN "healthy"
                             ELSE "unhealthy",
                  components |->
                      [s3_storage |-> IF s3_healthy THEN "healthy"
                                      ELSE "unhealthy",
                       sqs_queue |-> IF sqs_healthy THEN "healthy"
                                     ELSE "unhealthy"],
                  error |-> NoException]

\* chat.chat_health_check, lines 90-114: the response and the collection the
\* probe leaves (it creates the collection when it is not there)
chat_health_check(api_key, col, cout) ==
    LET openai_configured == api_key # ""
        c == create_collection_if_not_exists(col, cout)
        qdrant_healthy == c.ret
    IN  [result |->
            [status |-> IF openai_configured /\ qdrant_healthy THEN "healthy"
                        ELSE "unhealthy",
             components |->
                 [openai |-> IF openai_configured THEN "configured"
                             ELSE "not_configured",
                  qdrant |-> IF qdrant_healthy THEN "healthy"
                             ELSE "unhealthy"],
             error |-> NoException],
         collection |-> c.collection]

\* no health probe made yet
NoProbe ==
    [n |-> 0, probe |-> "", outs |-> <<>>,
     exception |-> NoException,
     result |-> [status |-> "", error |-> NoException]]

\* GET /api/v1/ingest/health
IngestHealthCheck(s3out, sqsout) ==
    /\ health.n < MaxProbes
    /\ \E e \in Raised({s3out, sqsout}) :
          health' = [n |-> health.n + 1, probe |-> "ingest",
                     outs |-> <<s3out, sqsout>>, exception |-> e,
                     result |-> ingest_health_check(s3out, sqsout, e)]
    /\ UNCHANGED <<proc, chat, chunker, maint, ingestVars, workerVars>>

\* GET /api/v1/chat/health
ChatHealthCheck(api_key, cout) ==
    /\ health.n < MaxProbes
    /\ LET r == chat_health_check(api_key, collection, cout)
       IN  /\ health' = [n |-> health.n + 1, probe |-> "chat",
                         outs |-> <<api_key, cout>>,
                         exception |-> NoException, result |-> r.result]
           /\ collection' = r.collection
    /\ UNCHANGED <<proc, chat, chunker, maint, ingestVars, nrecv, index, tmp, pc,
                   batch, loc, added, deleteCalls>>

\* -------------------------------------------------- collection maintenance
\* the keys of the documents the maintenance calls are about
OpsKeys == {s3_key_of(0, N_a_txt), s3_key_of(0, N_b_md)}

\* the numbers of chunks of those documents: one, a few, and one more than
\* a scroll of delete_documents_by_s3_key returns
ChunkCounts == {1, MaxChunks, delete_scroll_limit + 1}

\* the dicts of a document of n chunks, as the worker builds them
\* (document_worker.py lines 64-72), call being the add_documents call
DocumentsOf(call, s3_key, n) ==
    [j \in 1..n |->
        [id |-> <<<<"add", call>>, j - 1>>,
         vector |-> embedding_dim,
         content |-> <<[size |-> n, chunks |-> n], j - 1>>,
         filename |-> s3_key.filename,
         s3_key |-> s3_key,
         chunk_id |-> j - 1,
         chunk_size |-> 1]]

\* the subsets of S that have k elements
RECURSIVE Subsets(_, _)
Subsets(S, k) ==
    IF k = 0 THEN {{}}
    ELSE UNION { { {p} \cup T : T \in Subsets(S \ {p}, k - 1) } : p \in S }

\* client.scroll(..., limit=limit) returns one page: all of the points S
\* when they are at most `limit`, and `limit` of them otherwise.  Unread is
\* what the page can leave out.
Unread(S, limit) ==
    IF Cardinality(S) <= limit THEN {{}}
    ELSE Subsets(S, Cardinality(S) - limit)

\* QdrantService.delete_documents_by_s3_key, lines 171-206, page being what
\* the scroll returned
delete_documents_by_s3_key(idx, col, page, sout, dout) ==
    IF sout # "ok" \/ ~col.exists THEN [ret |-> FALSE, index |-> idx]
    ELSE IF page = {} THEN [ret |-> TRUE, index |-> idx]
    ELSE IF dout # "ok" THEN [ret |-> FALSE, index |-> idx]
    ELSE [ret |-> TRUE, index |-> idx \ page]

\* cleanup_duplicates, lines 222-227: documents_by_s3_key
Group(page, s3_key) == {p \in page : p.s3_key = s3_key}

\* the keys that cleanup_duplicates takes for duplicated: more than one
\* point (line 232)
Duplicated(page) ==
    {k \in {p.s3_key : p \in page} : Cardinality(Group(page, k)) > 1}

\* the points that can come last when the group is sorted by chunk_id
\* (lines 234-237)
Latest(points) ==
    {p \in points : \A q \in points : q.chunk_id <= p.chunk_id}

\* the choices of the point kept for each duplicated key
Kept(page) ==
    {f \in [Duplicated(page) ->
               UNION {Latest(Group(page, k)) : k \in Duplicated(page)}] :
        \A k \in Duplicated(page) : f[k] \in Latest(Group(page, k))}

\* QdrantService.cleanup_duplicates, lines 208-258: page is what the scroll
\* returned, kept the point left of each duplicated key, done the keys whose
\* delete call was made before one raised (all of them when none did)
cleanup_duplicates(idx, col, page, kept, done, sout) ==
    IF sout # "ok" \/ ~col.exists THEN [ret |-> FALSE, index |-> idx]
    ELSE IF page = {} THEN [ret |-> TRUE, index |-> idx]
    ELSE [ret |-> (done = Duplicated(page)),
          index |-> idx \ UNION {Group(page, k) \ {kept[k]} : k \in done}]

\* no maintenance call made yet
NoMaint ==
    [n |-> 0, op |-> "", s3_key |-> EmptyKey, outs |-> <<>>, ret |-> FALSE,
     vectors |-> <<>>]

\* QdrantService.add_documents is called with the chunks of a document (a
\* document of more than MaxChunks chunks only into an empty collection)
AddDocuments(s3_key, n, cout, eout, uout) ==
    /\ maint.n < MaxMaint
    /\ n > MaxChunks => index = {}
    /\ LET r == add_documents(index, collection,
                              DocumentsOf(maint.n + 1, s3_key, n),
                              cout, eout, uout)
       IN  /\ index' = r.index
           /\ collection' = r.collection
           /\ maint' = [n |-> maint.n + 1, op |-> "add_documents",
                        s3_key |-> s3_key, outs |-> <<cout, eout, uout>>,
                        ret |-> r.ret,
                        vectors |-> [j \in 1..n |-> embedding_dim]]
    /\ UNCHANGED <<proc, chat, chunker, health, ingestVars, nrecv, tmp, pc, batch,
                   loc, added, deleteCalls>>

\* the lengths of the vectors a caller can hand to add_documents
VectorLengths == {embedding_dim - 1, embedding_dim, embedding_dim + 1}

\* the documents with their vectors replaced by vectors of the given lengths
WithVectors(documents, lengths) ==
    [j \in 1..Len(documents) |-> [documents[j] EXCEPT !.vector = lengths[j]]]

\* QdrantService.add_documents is called with documents whose vectors have
\* the given lengths
AddVectors(s3_key, lengths, cout, eout, uout) ==
    /\ maint.n < MaxMaint
    /\ LET r == add_documents(index, collection,
                              WithVectors(DocumentsOf(maint.n + 1, s3_key,
                                                      Len(lengths)),
                                          lengths),
                              cout, eout, uout)
       IN  /\ index' = r.index
           /\ collection' = r.collection
           /\ maint' = [n |-> maint.n + 1, op |-> "add_documents",
                        s3_key |-> s3_key, outs |-> <<cout, eout, uout>>,
                        ret |-> r.ret, vectors |-> lengths]
    /\ UNCHANGED <<proc, chat, chunker, health, ingestVars, nrecv, tmp, pc, batch,
                   loc, added, deleteCalls>>

\* QdrantService.delete_documents_by_s3_key is called
DeleteDocumentsByS3Key(s3_key, sout, dout) ==
    /\ maint.n < MaxMaint
    /\ \E rest \in IF sout = "ok" /\ dout = "ok"
                     THEN Unread(PointsOf(index, s3_key), delete_scroll_limit)
                     ELSE {{}} :
          LET page == PointsOf(index, s3_key) \ rest
              r == delete_documents_by_s3_key(index, collection, page, sout,
                                              dout)
          IN  /\ index' = r.index
              /\ maint' = [n |-> maint.n + 1,
                           op |-> "delete_documents_by_s3_key",
                           s3_key |-> s3_key, outs |-> <<sout, dout>>,
                           ret |-> r.ret, vectors |-> <<>>]
    /\ UNCHANGED <<proc, chat, chunker, health, ingestVars, nrecv, collection, tmp,
                   pc, batch, loc, added, deleteCalls>>

\* QdrantService.cleanup_duplicates is called (scripts/cleanup_duplicates.py)
CleanupDuplicates(sout, dout) ==
    /\ maint.n < MaxMaint
    /\ \E rest \in IF sout = "ok" THEN Unread(index, cleanup_scroll_limit)
                     ELSE {{}} :
       \E kept \in Kept(index \ rest) :
       \E done \in IF dout = "ok" THEN {Duplicated(index \ rest)}
                   ELSE (SUBSET Duplicated(index \ rest))
                           \ {Duplicated(index \ rest)} :
          LET r == cleanup_duplicates(index, collection, index \ rest, kept,
                                      done, sout)
          IN  /\ index' = r.index
              /\ maint' = [n |-> maint.n + 1, op |-> "cleanup_duplicates",
                           s3_key |-> EmptyKey, outs |-> <<sout, dout>>,
                           ret |-> r.ret, vectors |-> <<>>]
    /\ UNCHANGED <<proc, chat, chunker, health, ingestVars, nrecv, collection, tmp,
                   pc, batch, loc, added, deleteCalls>>

\* QdrantService.create_collection_if_not_exists is called
CreateCollection(out) ==
    /\ maint.n < MaxMaint
    /\ LET c == create_collection_if_not_exists(collection, out)
       IN  /\ collection' = c.collection
           /\ maint' = [n |-> maint.n + 1,
                        op |-> "create_collection_if_not_exists",
                        s3_key |-> EmptyKey, outs |-> <<out>>,
                        ret |-> c.ret, vectors |-> <<>>]
    /\ UNCHANGED <<proc, chat, chunker, health, ingestVars, nrecv, index, tmp, pc,
                   batch, loc, added, deleteCalls>>

\* ---------------------------------------------------------------- chunker
\* a text of n units, each unit standing as its position in the text
Units(n) == [i \in 1..n |-> i]

\* the lengths of the texts handed to the chunker: none, one unit, an
\* overlap, around one chunk, around two and three chunks, and longer ones
TextLengths ==
    { 0, 1, chunk_overlap, chunk_size - 1, chunk_size, chunk_size + 1,
      2 * chunk_size,
      2 * chunk_size - chunk_overlap, 2 * chunk_size - chunk_overlap + 1,
      1000, 3 * chunk_size - 2 * chunk_overlap + 1 }

\* a plausible slip: the window moves on by its whole size
RECURSIVE split_no_overlap(_, _, _)
split_no_overlap(text, size, overlap) ==
    IF text = <<>> THEN <<>>
    ELSE IF Len(text) <= size THEN <<text>>
    ELSE <<SubSeq(text, 1, size)>>
         \o split_no_overlap(SubSeq(text, size + 1, Len(text)), size, overlap)

\* split(text, chunk_size, chunk_overlap): a window of chunk_size units that
\* moves on by chunk_size - chunk_overlap units until it reaches the end of
\* the text; no chunk for an empty text
RECURSIVE split(_, _, _)
split(text, size, overlap) ==
    IF text = <<>> THEN <<>>
    ELSE IF Len(text) <= size THEN <<text>>
    ELSE <<SubSeq(text, 1, size)>>
         \o split(SubSeq(text, size - overlap + 1, Len(text)), size, overlap)

\* the node parser of DocumentProcessor is handed a text
Split(n) ==
    /\ Len(chunker) < MaxSplits
    /\ chunker' = Append(chunker,
                         [text |-> Units(n),
                          chunks |-> split(Units(n), chunk_size,
                                           chunk_overlap)])
    /\ UNCHANGED <<proc, chat, health, maint, ingestVars, workerVars>>

NoResponse ==
    [file |-> [filename |-> <<>>, content |-> [size |-> 0, chunks |-> 0]],
     s3 |-> "ok", sqs |-> "ok", status |-> 0, detail |-> "",
     upload_calls |-> 0, send_calls |-> 0, s3_key |-> None,
     exception |-> NoException, enqueued |-> <<>>]

Init ==
    /\ clock = 0
    /\ nreq = 0
    /\ resp = NoResponse
    /\ puts = <<>>
    /\ blobs = <<>>
    /\ queue = <<>>
    /\ nrecv = 0
    /\ collection = NoCollection
    /\ index = {}
    /\ tmp = <<>>
    /\ pc = [w \in Workers |-> "poll"]
    /\ batch = [w \in Workers |-> <<>>]
    /\ loc = [w \in Workers |-> NoLocals]
    /\ added = {}
    /\ deleteCalls = {}
    /\ proc = NoCall
    /\ chat = NoChat
    /\ health = NoProbe
    /\ maint = NoMaint
    /\ chunker = <<>>

WorkerStep(w) ==
    \/ ReceiveNothing(w)
    \/ ReceiveMessages(w)
    \/ \E out \in Outcomes : Download(w, out)
    \/ \E out \in {"ok", "open_error", "write_error"} : WriteTemp(w, out)
    \/ \E out \in ProcessOutcomes : Process(w, out)
    \/ \E cout, eout \in {"ok", "other_error"} : Exists(w, cout, eout)
    \/ \E out \in {"ok", "other_error"} : Upsert(w, out)
    \/ Cleanup(w)
    \/ Remove(w)
    \/ \E out \in Outcomes, stale_deletes \in BOOLEAN :
          AckDelete(w, out, stale_deletes)
    \/ AckKeep(w)

QueueStep == \E m \in 1..Len(queue) : VisibilityTimeout(m)

RetentionStep == \E m \in 1..Len(queue) : RetentionExpires(m)

Next ==
    \/ \E file \in SysFiles, s3out, sqsout \in {"ok", "client_error"} :
          IngestDocument(file, s3out, sqsout)
    \/ Tick
    \/ QueueStep
    \/ \E w \in Workers : WorkerStep(w)

\* the whole system: uploads, the queue and the workers
Spec == Init /\ [][Next]_vars

NextIngest ==
    \/ \E file \in AllFiles, s3out, sqsout \in Outcomes :
          IngestDocument(file, s3out, sqsout)
    \/ Tick

NextRetention ==
    \/ \E file \in SysFiles : IngestDocument(file, "ok", "ok")
    \/ QueueStep
    \/ RetentionStep
    \/ \E w \in Workers : WorkerStep(w)

\* the queue and the workers over a time span longer than the retention period
SpecRetention == Init /\ [][NextRetention]_vars

\* the upload handler alone, on every kind of file name and size
SpecIngest == Init /\ [][NextIngest]_vars

\* the uploads whose tasks the processor is called for
ProcFiles ==
    [filename : {N_a_txt, <<"a", ".", "d", "o", "c">>,
                 <<"a", ".", "P", "D", "F">>},
     content : {c \in Contents(SysSizes) : c.chunks \in {0, MaxChunks}}]

NextProcessor ==
    \/ \E file \in ProcFiles : IngestDocument(file, "ok", "ok")
    \/ ProcessorStep

\* uploads, and DocumentProcessor.process_document called for their tasks
SpecProcessor == Init /\ [][NextProcessor]_vars

ForeignStep == \E Body \in MalformedBodies : SendForeign(Body)

\* (one upload with text, next to the messages that cannot be parsed)
NextMalformed ==
    \/ \E file \in {f \in SysFiles : f.content.chunks = MaxChunks} :
          IngestDocument(file, "ok", "ok")
    \/ ForeignStep
    \/ QueueStep
    \/ \E w \in Workers : WorkerStep(w)

\* the workers on a queue that also holds messages they cannot parse
SpecMalformed == Init /\ [][NextMalformed]_vars

NextHealth ==
    \/ \E s3out, sqsout \in Outcomes : IngestHealthCheck(s3out, sqsout)
    \/ \E api_key \in {"", "sk"}, cout \in {"ok", "other_error"} :
          ChatHealthCheck(api_key, cout)
    \/ \E out \in {"ok", "other_error"} : CreateCollection(out)
    \/ \E s3_key \in OpsKeys, cout, eout, uout \in {"ok", "other_error"} :
          AddDocuments(s3_key, 1, cout, eout, uout)

\* the health probes, on a collection that is created and filled meanwhile
SpecHealth == Init /\ [][NextHealth]_vars

NextIndex ==
    \/ \E s3_key \in OpsKeys, n \in ChunkCounts,
          cout, eout, uout \in {"ok", "other_error"} :
          AddDocuments(s3_key, n, cout, eout, uout)
    \/ \E s3_key \in OpsKeys, sout, dout \in {"ok", "other_error"} :
          DeleteDocumentsByS3Key(s3_key, sout, dout)
    \/ \E sout, dout \in {"ok", "other_error"} : CleanupDuplicates(sout, dout)
    \/ \E out \in {"ok", "other_error"} : CreateCollection(out)

\* the maintenance calls of QdrantService on a collection that is filled
SpecIndex == Init /\ [][NextIndex]_vars

NextChunker == \E n \in TextLengths : Split(n)

\* the chunker on texts of every length around the chunk boundaries
SpecChunker == Init /\ [][NextChunker]_vars

NextVectors ==
    \/ \E s3_key \in OpsKeys,
          lengths \in UNION {[1..k -> VectorLengths] : k \in 1..MaxChunks},
          cout, eout, uout \in {"ok", "other_error"} :
          AddVectors(s3_key, lengths, cout, eout, uout)
    \/ \E s3_key \in OpsKeys, sout, dout \in {"ok", "other_error"} :
          DeleteDocumentsByS3Key(s3_key, sout, dout)
    \/ \E out \in {"ok", "other_error"} : CreateCollection(out)

\* add_documents called with vectors of every length, on a collection that
\* is created, filled and emptied meanwhile
SpecVectors == Init /\ [][NextVectors]_vars

\* text files shorter than a chunk, of one chunk each
ShortFiles ==
    [filename : {N_a_txt},
     content : {[size |-> 11, chunks |-> 1], [size |-> 12, chunks |-> 1]}]

\* the characters of a chunk's text
chars(content) == Text("x", len_of(content))

\* search_documents, lines 137-147: the dict built from a search result
document_of(p, score) ==
    [id |-> p.id, content |-> chars(p.content), filename |-> p.filename,
     s3_key |-> p.s3_key, chunk_id |-> p.chunk_id, score |-> score]

\* the rankings the index can give for a query over its points: up to
\* MaxHits different points, by falling score
RankingsOf(idx) ==
    UNION { { [i \in 1..k |-> document_of(r[i], 9000 - 100 * i)] :
              r \in {r \in [1..k -> idx] :
                        \A i, j \in 1..k : i # j => r[i] # r[j]} } :
            k \in 0..Min(MaxHits, Cardinality(idx)) }

\* a query is posted and answered from what the index holds
ChatOverIndex(raw, lm) ==
    \E ranking \in RankingsOf(index) : ChatEndpoint(raw, ranking, "ok", lm)

\* DocumentWorker.run of worker w with every service answering
WorkerRunOk(w) ==
    \/ ReceiveMessages(w)
    \/ Download(w, "ok")
    \/ WriteTemp(w, "ok")
    \/ Process(w, "ok")
    \/ Exists(w, "ok", "ok")
    \/ Upsert(w, "ok")
    \/ Cleanup(w)
    \/ Remove(w)
    \/ AckDelete(w, "ok", FALSE)

NextEndToEnd ==
    \/ \E file \in ShortFiles : IngestDocument(file, "ok", "ok")
    \/ Tick
    \/ WorkerRunOk("w1")
    \/ \E raw \in {r \in RawRequests : /\ ChatRequest(r).valid
                                       /\ ~r.max_results.present} :
          ChatOverIndex(raw, "ok")

\* uploads of short text files, one worker, and queries over the index it
\* fills, every service answering
SpecEndToEnd == Init /\ [][NextEndToEnd]_vars

\* accepted uploads: an empty text file and one of a single chunk
LiveFiles ==
    [filename : {N_a_txt},
     content : {[size |-> 0, chunks |-> 0], [size |-> 11, chunks |-> 1]}]

\* run, lines 104-112, of a worker that is the only one: when it polls, no
\* receipt handle of an earlier delivery is held any more, so the deliveries
\* need no numbering across calls and a message can be redelivered without end
ReceiveMessagesAlone(w) ==
    /\ pc[w] = "poll"
    /\ \E mids \in Deliveries(queue, max_messages) :
         /\ queue' = MarkInFlight(queue, mids, 0)
         /\ batch' = [batch EXCEPT ![w] =
                [i \in 1..Len(mids) |->
                    [ReceiptHandle |-> ReceiptHandle(mids[i], i),
                     Body |-> queue[mids[i]].Body]]]
    /\ pc' = [pc EXCEPT ![w] = "download"]
    /\ UNCHANGED <<otherVars, clock, nreq, resp, puts, blobs, nrecv, collection,
                   index, tmp, loc, added, deleteCalls>>

\* DocumentWorker.run of worker w with every service answering, whatever
\* process_message returns
WorkerLoop(w) ==
    \/ ReceiveMessagesAlone(w)
    \/ Download(w, "ok")
    \/ WriteTemp(w, "ok")
    \/ Process(w, "ok")
    \/ Exists(w, "ok", "ok")
    \/ Upsert(w, "ok")
    \/ Cleanup(w)
    \/ Remove(w)
    \/ AckDelete(w, "ok", FALSE)
    \/ AckKeep(w)

NextLive ==
    \/ \E file \in LiveFiles : IngestDocument(file, "ok", "ok")
    \/ QueueStep
    \/ WorkerLoop("w1")

\* uploads, the queue and one worker with every service answering; the
\* worker's loop keeps running (while True, line 101) and the queue makes an
\* unacknowledged message visible again when its visibility timeout runs out
SpecLive ==
    /\ Init /\ [][NextLive]_vars
    /\ WF_vars(WorkerLoop("w1"))
    /\ WF_vars(QueueStep)

\* the upload of a text file, every call of it ending in every way
ErrorFiles == {f \in SysFiles : f.content.chunks = MaxChunks}

NextErrors ==
    \/ \E file \in ErrorFiles, s3out, sqsout \in Outcomes :
          IngestDocument(file, s3out, sqsout)
    \/ \E raw \in {r \in RawRequests : ~r.max_results.present},
          sout \in {"ok", "other_error"}, e \in ExceptionTexts :
          ChatEndpointRaises(raw, <<>>, sout, e)
    \/ \E s3out, sqsout \in Outcomes : IngestHealthCheck(s3out, sqsout)
    \/ \E api_key \in {"", "sk"}, cout \in {"ok", "other_error"} :
          ChatHealthCheck(api_key, cout)

\* the request-serving handlers, their calls failing in every way
SpecErrors == Init /\ [][NextErrors]_vars

NextChat ==
    \/ \E request \in Requests, ranking \in Rankings,
          sout, lm \in {"ok", "other_error"} :
          GenerateResponse(request, ranking, sout, lm)
    \/ \E raw \in RawRequests, ranking \in Rankings,
          sout, lm \in {"ok", "other_error"} :
          ChatEndpoint(raw, ranking, sout, lm)

\* the answer pipeline, on every ranking the index can give
SpecChat == Init /\ [][NextChat]_vars


\* ------------------------------------------------------------------ claims
\* the file of the last upload request, and its extension as os.path has it
ReqName == resp.file.filename
ReqSize == resp.file.content.size
ReqExt  == splitext(ReqName)[2]

\* the tasks the queue holds (visible or in flight)
Tasks == {m \in 1..Len(queue) : queue[m].st \in {"visible", "inflight"}}
TaskKey(m) == json_loads(queue[m].Body).s3_key

\* C1: the worker calls delete_message with a delivery's receipt handle only
\* when process_message returned True for that delivery, and a message leaves
\* the queue only in such a step.
C1_DeleteOnlyOnSuccess ==
    [][ /\ \A h \in deleteCalls' \ deleteCalls :
              \E w \in Workers : /\ pc[w] = "ack"
                                 /\ Msg(w).ReceiptHandle = h
                                 /\ loc[w].success
        /\ \A m \in 1..Len(queue) :
              (queue[m].st # "deleted" /\ queue'[m].st = "deleted") =>
                 \E w \in Workers : /\ pc[w] = "ack"
                                    /\ Msg(w).ReceiptHandle[1] = m
                                    /\ loc[w].success ]_vars

\* one delivery was processed with success and its message deleted, while
\* another delivery has just returned False and its handle was never used
C1_Witness ==
    /\ \E h \in deleteCalls : queue[h[1]].st = "deleted"
    /\ \E w \in Workers : /\ pc[w] = "ack"
                          /\ ~loc[w].success
                          /\ Msg(w).ReceiptHandle \notin deleteCalls

\* C2: a file whose extension is in the allow-list and whose size is at most
\* 10 MiB, with the blob store and the queue accepting, is answered 204 without
\* a body after exactly one upload_file and one send_message call, and the one
\* task enqueued carries the key upload_file returned.
C2_ConformingUploadAccepted ==
    ( /\ nreq > 0
      /\ ReqExt \in ALLOWED_EXTENSIONS
      /\ ReqSize <= 10 * 1024 * 1024
      /\ resp.s3 = "ok" /\ resp.sqs = "ok" )
    => /\ resp.status = 204
       /\ resp.detail = ""
       /\ resp.upload_calls = 1
       /\ resp.send_calls = 1
       /\ Len(resp.enqueued) = 1
       /\ json_loads(resp.enqueued[1].Body).s3_key = resp.s3_key
       /\ resp.s3_key = puts[Len(puts)]

\* a ".doc" file of exactly 10 MiB was accepted
C2_Witness ==
    /\ nreq > 0
    /\ ReqExt = <<".", "d", "o", "c">>
    /\ ReqSize = 10 * 1024 * 1024
    /\ resp.status = 204
    /\ Len(resp.enqueued) = 1

\* C3: the upload succeeds only if both services accepted; a failed upload_file
\* gives a 500 and no task; a failed send_message gives a 500 and no task of
\* the queue references the key the blob was stored under.
C3_NoPartialCommit ==
    nreq > 0 =>
       /\ resp.status = 204 => (resp.s3 = "ok" /\ resp.sqs = "ok")
       /\ (resp.upload_calls = 1 /\ resp.s3 # "ok") =>
             (resp.status = 500 /\ resp.send_calls = 0 /\ resp.enqueued = <<>>)
       /\ (resp.send_calls = 1 /\ resp.sqs # "ok") =>
             /\ resp.status = 500
             /\ resp.enqueued = <<>>
             /\ \A m \in Tasks : TaskKey(m) # resp.s3_key

\* C4: an upload without a file name, or whose lower-cased extension is not in
\* the allow-list, is answered 400 ("Invalid file type" for the extension) and
\* neither service is called: the blob store and the queue stay as they were.
C4_RejectedBeforeAnyCall ==
    [][ ( /\ nreq' = nreq + 1
          /\ \/ resp'.file.filename = <<>>
             \/ lower(splitext(resp'.file.filename)[2])
                   \notin ALLOWED_EXTENSIONS )
        => /\ resp'.status = 400
           /\ resp'.file.filename # <<>> => resp'.detail = "Invalid file type"
           /\ resp'.upload_calls = 0
           /\ resp'.send_calls = 0
           /\ blobs' = blobs
           /\ queue' = queue
           /\ puts' = puts ]_vars

\* a file without extension was rejected while the queue held a task
C4_Witness ==
    /\ nreq > 0
    /\ ReqName = <<"a">>
    /\ resp.status = 400
    /\ Tasks # {}

\* C5: an upload with an allowed extension is answered 413 exactly when it is
\* longer than 10 MiB, and then neither service is called.
C5_TooLargeExactlyAbove10MiB ==
    ( /\ nreq > 0
      /\ ReqName # <<>>
      /\ lower(ReqExt) \in ALLOWED_EXTENSIONS )
    => /\ resp.status = 413 <=> ReqSize > 10 * 1024 * 1024
       /\ resp.status = 413 =>
             /\ resp.detail = "File too large. Maximum size is 10MB"
             /\ resp.upload_calls = 0
             /\ resp.send_calls = 0
             /\ resp.enqueued = <<>>
       /\ ReqSize = 10 * 1024 * 1024 => resp.status \notin {400, 413}

\* a file one byte over the limit was answered 413
C5_Witness ==
    /\ nreq > 0
    /\ lower(ReqExt) \in ALLOWED_EXTENSIONS
    /\ ReqSize = 10 * 1024 * 1024 + 1
    /\ resp.status = 413

\* C6: any two successful upload_file calls return different keys.
C6_KeysNeverCollide ==
    \A i, j \in 1..Len(puts) : i # j => puts[i] # puts[j]


\* the worker whose step this is
Steps(w) == pc'[w] # pc[w] \/ batch'[w] # batch[w] \/ loc'[w] # loc[w]

\* C7: once an add_documents call for a key has returned True, a later call
\* for that key (one that begins after that return) leaves the set of the
\* key's points as it is.
C7_DedupIdempotent ==
    [][ \A w \in Workers :
          (pc[w] = "upsert" /\ loc[w].late /\ Steps(w)) =>
             PointsOf(index', body(w).s3_key)
                = PointsOf(index, body(w).s3_key) ]_vars

\* the message a point was stored for (its id carries the receipt handle)
MessageOf(p) == p.id[1][1]

\* C8: when two workers process deliveries of one task at the same time
\* (neither add_documents call began after the other returned), the chunks of
\* the task are stored at most once: such a call upserts only while the index
\* holds no point of another delivery of the task.
C8_NoDuplicateUnderConcurrency ==
    [][ \A w \in Workers :
          ( /\ pc[w] = "upsert" /\ ~loc[w].late /\ Steps(w)
            /\ index' # index )
          => \A p \in index : MessageOf(p) # Msg(w).ReceiptHandle[1] ]_vars

\* the deliveries of message m that the worker has finished with
Delivered(m) == queue[m].rh # <<0, 0>>
Held(m) == \E w \in Workers : \E i \in 1..Len(batch[w]) :
               batch[w][i].ReceiptHandle[1] = m
NeverAcked(m) == \A h \in deleteCalls : h[1] # m

\* C9 (as claimed): a task that failed on every delivery stays in the queue
\* for ever: whenever no worker holds it, it is visible or waits for its
\* visibility timeout.
C9_FailingTaskRedeliveredForever ==
    \A m \in 1..Len(queue) :
       (Delivered(m) /\ ~Held(m) /\ NeverAcked(m)) =>
          queue[m].st \in {"visible", "inflight"}

\* C9 (amended): a delivery that failed makes the worker neither call
\* delete_message nor leave the loop, and the queue keeps the message; a task
\* that failed on every delivery is visible again or waits for its visibility
\* timeout, until the retention period of the queue drops it.
C9_FailingTaskRedeliveredUntilRetention ==
    [][ /\ \A w \in Workers :
              (pc[w] = "ack" /\ ~loc[w].success /\ Steps(w)) =>
                 /\ queue' = queue
                 /\ deleteCalls' = deleteCalls
                 /\ pc'[w] \in {"poll", "download"}
                 /\ batch'[w] = Tail(batch[w])
        /\ \A m \in 1..Len(queue) :
              (Delivered(m) /\ ~Held(m) /\ NeverAcked(m)) =>
                 queue[m].st \in {"visible", "inflight", "expired"} ]_vars

\* a task failed on its first delivery, became visible again after the
\* timeout and was received a second time
C9_Witness ==
    \E m \in 1..Len(queue) :
       /\ NeverAcked(m)
       /\ queue[m].st = "inflight"
       /\ queue[m].rh[2] = 2
       /\ \E w \in Workers : /\ pc[w] = "ack"
                             /\ ~loc[w].success
                             /\ Msg(w).ReceiptHandle = queue[m].rh

PReturned == proc.pc = "idle" /\ proc.n > 0

SharesTemp(w) ==
    \E v \in Workers \ {w} :
       /\ pc[v] \in {"process", "exists", "upsert", "cleanup", "remove"}
       /\ body(v).filename = body(w).filename

\* C13: after process_document has returned, no temporary file created by
\* that call exists; after process_message has returned, /tmp/{filename}
\* does not exist unless another worker is using it.
C13_TempFileRemovedOnEveryPath ==
    /\ PReturned =>
          \A f \in DOMAIN tmp : ~(f[1] = "tmp" /\ f[2] = Digit(proc.n))
    /\ \A w \in Workers :
          (pc[w] = "ack" /\ body(w).filename \in DOMAIN tmp) => SharesTemp(w)

\* C14: every extension the upload allow-list accepts has a reader, and
\* read_document fails exactly when the lower-cased extension has no reader
\* or the reader yields no document.
C14_ReadersMatchAllowList ==
    [][ (proc.pc = "read" /\ proc'.pc # "read") =>
          LET file_extension == lower(suffix(proc.temp_file_path))
          IN  /\ validate_file(proc.filename) => file_extension \in readers
              /\ (proc'.documents = None) <=>
                    (file_extension \notin readers \/ proc'.reader # "ok") ]_vars

\* C15: for a document of n >= 1 chunks whose download, extraction and
\* embeddings all succeeded, with the index answering and holding no chunk
\* of the key, process_document returns True and the index gains exactly n
\* points, the i-th with the chunk's text, the task's file name and key,
\* chunk_id i and chunk_size the length of the text.
C15_ProcessDocumentStoresChunks ==
    [][ ( /\ proc.pc = "store" /\ proc'.pc = "cleanup"
          /\ proc.nodes >= 1 /\ proc.failed = {}
          /\ PointsOf(index, proc.s3_key) = {}
          /\ proc'.store = <<"ok", "ok", "ok">> )
        => /\ proc'.ret
           /\ Cardinality(index' \ index) = proc.nodes
           /\ \A i \in 0..(proc.nodes - 1) :
                 \E p \in index' \ index :
                    /\ p.content = <<proc.documents, i>>
                    /\ p.filename = proc.filename
                    /\ p.s3_key = proc.s3_key
                    /\ p.chunk_id = i
                    /\ p.chunk_size = len_of(<<proc.documents, i>>) ]_vars

\* a query has been answered
Answered == chat.n > 0

C17_NoDocumentsNoAnswer ==
    (Answered /\ chat.via = "generate_response"
              /\ chat.response.documents = <<>>)
        => /\ chat.response.answer = NoContextMessage
           /\ chat.response.answer # ModelAnswer
           /\ chat.response.prompts = <<>>
           /\ chat.response.sources = <<>>

C17_Witness ==
    /\ Answered /\ chat.via = "generate_response"
    /\ chat.response.documents = <<>> /\ chat.search = "ok" /\ chat.lm = "ok"
    /\ chat.request.include_sources
    /\ chat.response.answer = NoContextMessage

\* C18 as stated: for an empty result set the context is a non-empty
\* sentinel and the language model is asked with it.
C18_SentinelContextPassedToModel ==
    (Answered /\ chat.response.searched /\ chat.response.documents = <<>>)
        => /\ chat.response.context # <<>>
           /\ chat.response.prompts # <<>>
           /\ chat.response.prompts[1].context = chat.response.context

\* C18 amended: for an empty result set the context is the empty string,
\* and generate_response does not ask the language model.
C18_EmptyContextModelNotAsked ==
    (Answered /\ chat.response.searched /\ chat.response.documents = <<>>)
        => /\ chat.response.context = <<>>
           /\ chat.via = "generate_response" => chat.response.prompts = <<>>

C18_Witness ==
    /\ Answered /\ chat.via = "generate_response"
    /\ chat.ranking = <<>> /\ chat.search = "ok" /\ chat.lm = "ok"
    /\ chat.response.context = <<>> /\ chat.response.prompts = <<>>

\* the sources of the answer are built
SourcesBuilt ==
    /\ Answered /\ chat.response.status = 200
    /\ chat.request.include_sources

\* C19: the preview of a retrieved document is its first 200 characters
\* followed by "..." when the content has more than 200 characters, and is
\* the content itself when it has 200 characters or fewer.
C19_PreviewTruncation ==
    SourcesBuilt =>
        /\ Len(chat.response.sources) = Len(chat.response.documents)
        /\ \A i \in 1..Len(chat.response.documents) :
              LET content == chat.response.documents[i].content
                  preview == chat.response.sources[i].content_preview
              IN  IF Len(content) > 200
                  THEN /\ Len(preview) = 203
                       /\ \A j \in 1..200 : preview[j] = content[j]
                       /\ \A j \in 201..203 : preview[j] = "."
                  ELSE preview = content

C19_Witness ==
    /\ SourcesBuilt
    /\ \E i, j \in 1..Len(chat.response.documents) :
          /\ Len(chat.response.documents[i].content) = 200
          /\ Len(chat.response.sources[i].content_preview) = 200
          /\ Len(chat.response.documents[j].content) = 201
          /\ Len(chat.response.sources[j].content_preview) = 203

\* the answer the same query gets with the other value of include_sources
OtherAnswer ==
    LET request == [chat.request EXCEPT
                       !.include_sources = ~chat.request.include_sources]
    IN  IF chat.via = "chat_endpoint"
        THEN chat_endpoint(request, chat.ranking, chat.search, chat.lm).answer
        ELSE generate_response(request, chat.ranking, chat.search,
                               chat.lm).answer

\* C20: with include_sources the sources have one entry per retrieved
\* document, in the order of the ranking, so at most max_results <= 20 of
\* them; without it the sources are empty; the answer is the same either way.
C20_OneSourcePerDocumentInOrder ==
    (Answered /\ chat.response.status = 200) =>
        /\ chat.request.include_sources =>
              /\ Len(chat.response.sources) = Len(chat.response.documents)
              /\ Len(chat.response.sources) <= chat.request.max_results
              /\ chat.request.max_results <= 20
              /\ Len(chat.response.sources) <= Len(chat.ranking)
              /\ \A i \in 1..Len(chat.response.sources) :
                    chat.response.sources[i].filename = chat.ranking[i].filename
        /\ ~chat.request.include_sources => chat.response.sources = <<>>
        /\ chat.response.answer = OtherAnswer

C20_Witness ==
    /\ Answered /\ chat.request.include_sources
    /\ chat.request.max_results = MaxHits - 1
    /\ Len(chat.ranking) = MaxHits
    /\ Len(chat.response.sources) = MaxHits - 1
    /\ chat.response.sources[1].filename = chat.ranking[1].filename
    /\ chat.response.sources[2].filename = chat.ranking[2].filename

\* the retrieved documents whose content is not empty, in ranked order
NonEmpty == SelectSeq(chat.response.documents, LAMBDA doc : doc.content # <<>>)

\* where the j-th non-empty content starts in the context, less one
RECURSIVE Offset(_)
Offset(j) ==
    IF j = 1 THEN 0 ELSE Offset(j - 1) + Len(NonEmpty[j - 1].content) + 2

\* C21: for a non-empty list of retrieved documents the context is made of
\* the non-empty contents, each once and in ranked order, with exactly
\* "\n\n" between two of them and nothing before, after or for an empty
\* content.
C21_ContextInRankedOrder ==
    (Answered /\ chat.response.documents # <<>>) =>
        LET context == chat.response.context
            k == Len(NonEmpty)
        IN  IF k = 0 THEN context = <<>>
            ELSE /\ Len(context) = Offset(k) + Len(NonEmpty[k].content)
                 /\ \A j \in 1..k :
                       /\ SubSeq(context, Offset(j) + 1,
                                 Offset(j) + Len(NonEmpty[j].content))
                             = NonEmpty[j].content
                       /\ j < k =>
                            LET e == Offset(j) + Len(NonEmpty[j].content)
                            IN  context[e + 1] = "\n" /\ context[e + 2] = "\n"

C21_Witness ==
    /\ Answered /\ Len(chat.response.documents) = MaxHits
    /\ Len(NonEmpty) = MaxHits - 1
    /\ chat.response.documents[2].content = <<>>
    /\ Len(chat.response.context) =
          Len(NonEmpty[1].content) + 2 + Len(NonEmpty[2].content)

\* a posted query has been handled
Posted == Answered /\ chat.via = "chat_endpoint"

\* C22: a posted query is accepted exactly when its query is present and not
\* empty and its max_results is absent (then 5) or an integer from 1 to 20;
\* any other body is answered with a validation error, before any search
\* (and so any embedding of the query) and any call of the language model.
C22_OnlyValidQueriesAccepted ==
    Posted =>
        LET raw == chat.raw
            acceptable ==
                /\ raw.query.present /\ raw.query.value # <<>>
                /\ \/ ~raw.max_results.present
                   \/ /\ raw.max_results.integer
                      /\ raw.max_results.value \in 1..20
        IN  /\ acceptable <=> chat.response.status # 422
            /\ (acceptable /\ ~raw.max_results.present)
                  => chat.request.max_results = 5
            /\ ~acceptable => /\ ~chat.response.searched
                              /\ chat.response.documents = <<>>
                              /\ chat.response.prompts = <<>>
                              /\ chat.response.answer = <<>>

C22_Witness ==
    /\ Posted /\ chat.raw.query.present /\ chat.raw.query.value # <<>>
    /\ chat.raw.max_results.present /\ chat.raw.max_results.value = 21
    /\ chat.response.status = 422 /\ ~chat.response.searched
    /\ chat.ranking # <<>> /\ chat.search = "ok" /\ chat.lm = "ok"

\* the first n fragments of the generator, put one after the other
RECURSIVE InOrder(_)
InOrder(n) ==
    IF n = 0 THEN <<>> ELSE InOrder(n - 1) \o chat.response.fragments[n]

C24_WorkerCallsProcessDocument ==
    \A w \in Workers :
        (pc[w] = "ack" /\ WellFormed(body(w))) =>
            /\ proc.n >= 1
            /\ proc.s3_key = body(w).s3_key
            /\ proc.filename = body(w).filename
            /\ loc[w].success = proc.ret

\* the body is not JSON, or its object lacks s3_key or filename
Malformed(b) == b = None \/ b.s3_key = None \/ b.filename = <<>>

\* C25: process_message returns False for a message whose body is not JSON
\* or lacks s3_key or filename, having downloaded no blob, written no
\* temporary file and nothing to the index; run then leaves the message in
\* the queue.
C25_MalformedMessageRejected ==
    [][ \A w \in Workers :
          /\ (pc[w] = "download" /\ Malformed(body(w))
                                 /\ pc'[w] # "download")
                => /\ pc'[w] = "ack"
                   /\ loc'[w] = NoLocals
                   /\ UNCHANGED <<blobs, tmp, index, collection, added,
                                  queue, deleteCalls>>
          /\ (pc[w] = "ack" /\ Malformed(body(w)) /\ pc'[w] # "ack")
                => UNCHANGED <<queue, deleteCalls, blobs, tmp, index>> ]_vars

C25_Witness ==
    /\ \A w \in Workers : pc[w] = "poll"
    /\ \E m \in 1..Len(queue) :
          /\ queue[m].Body \in MalformedBodies
          /\ queue[m].Body.json
          /\ queue[m].rh # <<0, 0>>
    /\ deleteCalls = {} /\ index = {} /\ tmp = <<>>

\* a health probe has answered
Probed == health.n > 0

\* C26: a health probe answers 'healthy' exactly when it reports every one
\* of its components as healthy or configured, and 'unhealthy' otherwise,
\* also when a call of the probe raises.
C26_HealthRollup ==
    Probed =>
        LET r == health.result
        IN  /\ r.status \in {"healthy", "unhealthy"}
            /\ (r.status = "healthy") <=>
                  /\ "components" \in DOMAIN r
                  /\ \A c \in DOMAIN r.components :
                        r.components[c] \in {"healthy", "configured"}
            /\ (\E i \in 1..Len(health.outs) : health.outs[i] = "other_error")
                  => r.status = "unhealthy"

C26_Witness ==
    /\ Probed /\ health.probe = "ingest"
    /\ health.outs = <<"client_error", "ok">>
    /\ health.result.status = "unhealthy"
    /\ health.result.components.s3_storage = "unhealthy"

\* C27: when create_queue_if_not_exists returns False, the ingest probe
\* reports sqs_queue as 'unhealthy' and the overall status as 'unhealthy'.
C27_QueueFailureReported ==
    (Probed /\ health.probe = "ingest" /\ health.outs[1] # "other_error"
            /\ health.outs[2] = "client_error")
        => /\ health.result.status = "unhealthy"
           /\ "components" \in DOMAIN health.result
           /\ health.result.components.sqs_queue = "unhealthy"

\* a maintenance call of the given name has just returned
Called(op) == maint'.n = maint.n + 1 /\ maint'.op = op

\* C28: after delete_documents_by_s3_key(k) has returned True no point of
\* key k is left, however many there were, and every point of another key
\* is still there.
C28_DeleteByKeyDeletesAll ==
    [][ (Called("delete_documents_by_s3_key") /\ maint'.ret)
        => /\ PointsOf(index', maint'.s3_key) = {}
           /\ index' \subseteq index
           /\ \A p \in index : p.s3_key # maint'.s3_key => p \in index' ]_vars

\* the points of key k come from one add_documents call
IngestedOnce(k) ==
    Cardinality({p.id[1] : p \in PointsOf(index, k)}) = 1

\* C29: after cleanup_duplicates has returned True, a key that was ingested
\* exactly once still has all its chunks.
C29_CleanupKeepsSingleIngestion ==
    [][ (Called("cleanup_duplicates") /\ maint'.ret)
        => \A k \in OpsKeys :
              IngestedOnce(k) => PointsOf(index', k) = PointsOf(index, k) ]_vars

\* C30: create_collection_if_not_exists returns True exactly when the index
\* answers; it never touches a point; called when the collection exists it
\* changes nothing; after a True the collection exists with 384 dimensions
\* and the cosine metric; after a False it is as before.
C30_CreateCollectionIdempotent ==
    [][ Called("create_collection_if_not_exists")
        => /\ index' = index
           /\ maint'.ret <=> (maint'.outs[1] = "ok")
           /\ collection.exists => collection' = collection
           /\ maint'.ret =>
                 collection' = [exists |-> TRUE, size |-> 384,
                                distance |-> "Cosine"]
           /\ ~maint'.ret => collection' = collection ]_vars

C30_Witness ==
    /\ maint.n = MaxMaint
    /\ maint.op = "create_collection_if_not_exists" /\ maint.ret
    /\ index # {}
    /\ collection = [exists |-> TRUE, size |-> 384, distance |-> "Cosine"]

\* an add_documents call has just returned, one of its vectors not having
\* the collection's dimension
WrongVectorAdded ==
    /\ maint'.n = maint.n + 1 /\ maint'.op = "add_documents"
    /\ \E j \in 1..Len(maint'.vectors) : maint'.vectors[j] # 384

\* C31 as stated: every point of the index has a vector of 384 numbers, and
\* an add_documents call with a vector of another length stores no point
\* and returns False.
C31_WrongVectorReturnsFalse ==
    [][ /\ \A p \in index' : p.vector = 384
        /\ WrongVectorAdded => (index' = index /\ ~maint'.ret) ]_vars

\* C31: every point of the index has a vector of 384 numbers; an
\* add_documents call with a vector of another length stores no point, and
\* returns False unless the key of its first document already has a point:
\* then the call is skipped as a duplicate, the vectors are never looked at
\* and it returns True.
C31_WrongVectorStoresNothing ==
    [][ /\ \A p \in index' : p.vector = 384
        /\ WrongVectorAdded =>
              /\ index' = index
              /\ maint'.ret = /\ maint'.outs[1] = "ok" /\ maint'.outs[2] = "ok"
                              /\ PointsOf(index, maint'.s3_key) # {} ]_vars

\* a batch of two vectors, the second too long, was refused by a collection
\* that holds the points of another document
C31_Witness ==
    /\ maint.op = "add_documents" /\ maint.outs = <<"ok", "ok", "ok">>
    /\ maint.vectors = <<384, 385>> /\ ~maint.ret
    /\ index # {} /\ PointsOf(index, maint.s3_key) = {}

\* C32: whatever the exception raised inside the upload, chat and health
\* handlers, what is sent back is the same for every text the exception can
\* have: the reply to a failing request does not depend on str(e).
C32_NoExceptionTextInReplies ==
    [][ /\ (nreq' = nreq + 1 /\ resp'.exception # NoException) =>
              \A e \in ExceptionTexts :
                 ingest_document(resp'.file, resp'.s3, resp'.sqs, e, clock,
                                 blobs, queue, nreq + 1).detail = resp'.detail
        /\ (chat'.n = chat.n + 1 /\ chat'.exception # NoException) =>
              \A e \in ExceptionTexts :
                 chat_endpoint_except(chat'.request, e) = chat'.response
        /\ (health'.n = health.n + 1 /\ health'.exception # NoException) =>
              \A e \in ExceptionTexts :
                 ingest_health_check(health'.outs[1], health'.outs[2], e)
                    = health'.result ]_vars

\* the last upload was accepted, its text is shorter than a chunk, and a
\* worker run for its task has returned True
ShortUploadProcessed ==
    /\ nreq > 0 /\ resp.status = 204
    /\ resp.file.content.size > 0 /\ resp.file.content.size < chunk_size
    /\ \E h \in deleteCalls :
          json_loads(queue[h[1]].Body).document_id = nreq

\* C33: once an accepted upload of a text shorter than a chunk has had a
\* successful worker run for its task, the index holds exactly one chunk for
\* its key, with the whole text as content and the uploaded file name; and a
\* query answered after that which retrieves the chunk and asks for sources
\* lists the file name with the text unmodified.
C33_EndToEnd ==
    [][ /\ ShortUploadProcessed =>
              \E p \in index :
                 /\ PointsOf(index, resp.s3_key) = {p}
                 /\ p.content = <<resp.file.content, 0>>
                 /\ p.filename = resp.file.filename
        /\ ( /\ ShortUploadProcessed /\ chat'.n = chat.n + 1
             /\ chat'.request.include_sources
             /\ \E i \in 1..Len(chat'.response.documents) :
                   chat'.response.documents[i].s3_key = resp.s3_key )
           => \E i \in 1..Len(chat'.response.sources) :
                 /\ chat'.response.sources[i].filename = resp.file.filename
                 /\ chat'.response.sources[i].content_preview
                       = Text("x", resp.file.content.size) ]_vars

\* the chunks of a call are at most chunk_size units long, and each chunk
\* but the first begins with exactly the last chunk_overlap units of the one
\* before it
WithinBounds(c) ==
    /\ \A i \in 1..Len(c.chunks) : Len(c.chunks[i]) <= 512
    /\ \A i \in 1..(Len(c.chunks) - 1) :
          /\ Len(c.chunks[i]) >= 50 /\ Len(c.chunks[i + 1]) >= 50
          /\ SubSeq(c.chunks[i], Len(c.chunks[i]) - 49, Len(c.chunks[i]))
                = SubSeq(c.chunks[i + 1], 1, 50)
          /\ c.chunks[i + 1][51] \notin
                {c.chunks[i][k] : k \in 1..Len(c.chunks[i])}

\* two calls with the same text gave the same chunks
Deterministic ==
    \A i, j \in 1..Len(chunker) :
       chunker[i].text = chunker[j].text =>
          chunker[i].chunks = chunker[j].chunks

C35_EveryTaskAcknowledged ==
    \A m \in 1..MaxUploads :
       (Len(queue) >= m) ~> (Len(queue) >= m /\ queue[m].st = "deleted")

\* another worker is between the write of /tmp/{filename} and its own removal
\* of it, for a task of the same filename and another blob key
UsedByOther(w) ==
    \E v \in Workers \ {w} :
       /\ pc[v] \in {"process", "exists", "upsert", "cleanup", "remove"}
       /\ body(v).filename = body(w).filename
       /\ body(v).s3_key # body(w).s3_key

\* C36: when two workers process tasks of the same filename and different
\* blob keys at the same time, each extracts the bytes it downloaded from
\* its own blob, and
\* neither overwrites nor removes the temporary file the other still uses.
C36_TempFilesIsolated ==
    [][ \A w \in Workers :
          /\ (pc[w] = "process" /\ pc'[w] = "exists" /\ UsedByOther(w)) =>
                 loc'[w].texts.src = loc[w].file_data
          /\ (pc[w] \in {"write", "remove"} /\ tmp' # tmp) => ~UsedByOther(w)
      ]_vars

\* C37: when the scroll of document_exists raises during add_documents, the
\* call adds no chunk for a blob key that already has chunks in the index.
C37_DedupDoesNotFailOpen ==
    [][ ( /\ maint'.n = maint.n + 1 /\ maint'.op = "add_documents"
          /\ maint'.outs[2] # "ok"
          /\ PointsOf(index, maint'.s3_key) # {} )
        => PointsOf(index', maint'.s3_key) = PointsOf(index, maint'.s3_key)
      ]_vars

\* C38: within one received batch the messages are handled in the received
\* order, and whatever happens to one message (its processing fails, its
\* deletion fails) the worker goes on with the remaining messages of the
\* batch in the same iteration.
C38_BatchIndependence ==
    [][ \A w \in Workers :
          (pc[w] = "ack" /\ pc'[w] # "ack") =>
             /\ batch'[w] = Tail(batch[w])
             /\ batch'[w] # <<>> => pc'[w] = "download"
      ]_vars

\* C39: when the vector search of a query fails, no document is retrieved
\* and generate_response answers as it does for an empty index: with status
\* 200, the insufficient-context message and no sources, and the language
\* model is not asked.
C39_SearchFailureNotPropagated ==
    (Answered /\ chat.via = "generate_response" /\ chat.search # "ok")
        => /\ chat.response.documents = <<>>
           /\ chat.response.status = 200
           /\ chat.response.answer = NoContextMessage
           /\ chat.response.sources = <<>>
           /\ chat.response.prompts = <<>>
           /\ chat.response
                 = generate_response(chat.request, <<>>, "ok", chat.lm)

\* the search failed for a query the index has three hits for, sources
\* being asked for and the model being reachable
C39_Witness ==
    /\ Answered /\ chat.via = "generate_response"
    /\ chat.search = "other_error" /\ Len(chat.ranking) = MaxHits
    /\ chat.lm = "ok" /\ chat.request.include_sources
    /\ chat.response.answer = NoContextMessage

\* C40: every task in the queue, visible or in flight, carries the key of a
\* blob that was stored before the task was enqueued; no blob being deleted,
\* the blob of every task a worker holds exists.
C40_BlobBeforeTask ==
    /\ \A m \in Tasks :
          /\ TaskKey(m) \in DOMAIN blobs
          /\ \E i \in 1..Len(puts) : puts[i] = TaskKey(m)
    /\ \A w \in Workers :
          pc[w] = "download" => body(w).s3_key \in DOMAIN blobs

\* after an upload that failed at the blob store and one that succeeded, a
\* worker holds the only task, whose blob exists
C40_Witness ==
    /\ nreq = 2 /\ Len(queue) = 1 /\ queue[1].st = "inflight"
    /\ \E w \in Workers : pc[w] = "download"
    /\ TaskKey(1) \in DOMAIN blobs

=============================================================================
